---- MODULE Spec2Model ----
(***************************************************************************)
(* A model of the in-memory virtual file system of                         *)
(* scripts/vfs-path/src/index.ts: inodes, directory maps, the descriptor   *)
(* table with its staged buffers, inotify watches and shadow file systems. *)
(*                                                                         *)
(* Representation.  A path string is held in parsed form, as the sequence  *)
(* of components vpath.parse returns: <<root, seg1, ..., segN>>, the root   *)
(* being "" for a relative path.  A bit mask (open flags, mode bits,       *)
(* inotify masks) is held as the set of the names of its bits, so that     *)
(* a & b is intersection, a | b is union and a & ~b is set difference.     *)
(* Objects that the code shares by reference (inodes, Buffers, watch       *)
(* descriptions) live in heaps indexed by handles, so that aliasing of a   *)
(* Buffer between an inode and a descriptor is visible.                    *)
(***************************************************************************)
EXTENDS Integers, Sequences, FiniteSets, TLC

VARIABLES
    inode,      \* heap of Inode objects: handle -> Inode record
    buf,        \* heap of Buffer objects: handle -> sequence of bytes
    fsys,       \* the FileSystem instances: id -> fields of the instance
    wdesc,      \* heap of WatchDescription objects, indexed by wd
    cnt,        \* the module-level counters inoCount, fdCount, wdCount, cookieCount
    events,     \* WatchEvents handed to inotify callbacks by the last operation
    calls,      \* the calls made on the FileSystemResolver, in order
    ticks,      \* process.nextTick: the callbacks queued for the next tick
    invoked,    \* the callbacks the event loop has invoked, in order
    poll,       \* watchFile: the WatchedFile objects, their intervals, the listeners called
    stamps,     \* the time stamps the last operation set: <<inode, field, value>>
    watchers,   \* heap of FSWatcher objects: handle -> [fs, fd, wd]
    last        \* the last operation: its name, arguments and outcome

vars == <<inode, buf, fsys, wdesc, cnt, events, calls, ticks, invoked, poll, stamps,
          watchers, last>>

----------------------------------------------------------------------------
(* Bounds of the model *)

MaxNodes == 7       \* inodes allocated
MaxBufs == 6        \* Buffers allocated
MaxFds == 3         \* descriptors issued
MaxWds == 2         \* watch descriptors issued
MaxChain == 41      \* longest chain of symbolic links built for the resolver
MaxPolls == 2       \* watchFile registrations made

----------------------------------------------------------------------------
(* Maps (core.SortedMap / Map) as functions *)

\* The names used as path components, in the order of their code units.
NameSeq == <<"/", "F", "a", "b", "f", "g", "h">>
Names == {NameSeq[i] : i \in 1..Len(NameSeq)}

EmptyMap == [k \in {} |-> 0]
MapSet(m, k, v) == [x \in (DOMAIN m) \cup {k} |-> IF x = k THEN v ELSE m[x]]
MapDel(m, k) == [x \in (DOMAIN m) \ {k} |-> m[x]]

----------------------------------------------------------------------------
(* vpath: path functions on parsed paths *)

RootPath == <<"/">>
EmptyPath == <<"">>

\* vpath.format(components): the empty array formats to "".
format(components) == IF Len(components) = 0 THEN EmptyPath ELSE components

isAbsolute(path) == path[1] # ""

\* vpath.reduce: collapse "." and "..".  st holds the loop's i and normalized; one
\* reduceStep is one turn of the loop, reduceIterate makes at most n turns.
\* A turn of the loop that keeps a ".." met at the root.
reduceStepKeep(components, st) ==
    LET component == components[st.i]
        normalized == st.normalized
    IN  IF component = "." THEN [st EXCEPT !.i = @ + 1]
        ELSE IF component = ".." /\ Len(normalized) > 1 /\ normalized[Len(normalized)] # ".."
             THEN [i |-> st.i + 1, normalized |-> SubSeq(normalized, 1, Len(normalized) - 1)]
        ELSE [i |-> st.i + 1, normalized |-> Append(normalized, component)]

reduceStep(components, st) ==
    LET component == components[st.i]
        normalized == st.normalized
    IN  IF component = "." THEN [st EXCEPT !.i = @ + 1]
        ELSE IF component = ".." /\ Len(normalized) > 1 /\ normalized[Len(normalized)] # ".."
             THEN [i |-> st.i + 1, normalized |-> SubSeq(normalized, 1, Len(normalized) - 1)]
        ELSE IF component = ".." /\ Len(normalized) <= 1 /\ normalized[1] # ""
             THEN [st EXCEPT !.i = @ + 1]
        ELSE [i |-> st.i + 1, normalized |-> Append(normalized, component)]

RECURSIVE reduceIterate(_, _, _)
reduceIterate(components, st, n) ==
    IF st.i > Len(components) THEN st
    ELSE IF n <= 1 THEN reduceStep(components, st)
    ELSE CHOOSE r \in {reduceIterate(components, half, n - (n \div 2)) :
                            half \in {reduceIterate(components, st, n \div 2)}} : TRUE

reduce(components) ==
    reduceIterate(components, [i |-> 2, normalized |-> <<components[1]>>],
                  Len(components)).normalized

normalize(path) == reduce(path)

\* vpath.combine(path, name) for one name.
combine(path, name) ==
    IF name = EmptyPath THEN path
    ELSE IF path = EmptyPath \/ isAbsolute(name) THEN name
    ELSE path \o Tail(name)

resolve(path, name) == normalize(combine(path, name))

dirname(path) == IF Len(path) <= 1 THEN path ELSE SubSeq(path, 1, Len(path) - 1)

basename(path) == IF Len(path) <= 1 THEN "" ELSE path[Len(path)]

----------------------------------------------------------------------------
(* vpath: path functions on path strings *)

\* A path string is the sequence of its separators and of the segments between
\* them, as "a//f/" is a, /, /, f, /.  No path string here starts with two
\* separators, which absolutePathRegExp reads as the root of a UNC path.
sep == "/"

\* The segments that invalidNavigableComponentRegExp matches.
InvalidNames == {"*"}

getRootLength(path) == IF Len(path) > 0 /\ path[1] = sep THEN 1 ELSE 0

isRoot(path) == getRootLength(path) > 0 /\ getRootLength(path) = Len(path)

hasTrailingSeparator(path) == Len(path) > 0 /\ path[Len(path)] = sep /\ ~isRoot(path)

\* vpath.parse of a path string: the root, then what split(/\/+/g) leaves of the
\* rest, without the empty last piece.
parsePath(path) ==
    <<IF getRootLength(path) > 0 THEN "/" ELSE "">>
        \o SelectSeq(SubSeq(path, getRootLength(path) + 1, Len(path)), LAMBDA t : t # sep)

\* vpath.format to a path string: components[0] + components.slice(1).join(sep)
formatPath(components) ==
    IF Len(components) = 0 THEN <<>>
    ELSE (IF components[1] = "" THEN <<>> ELSE <<components[1]>>)
         \o [i \in 1..(IF Len(components) > 1 THEN 2 * (Len(components) - 1) - 1 ELSE 0) |->
                IF i % 2 = 1 THEN components[((i + 1) \div 2) + 1] ELSE sep]

\* validateComponents under ValidationFlags.RelativeOrAbsolute, which requires
\* nothing and allows everything: only the component strings are tested.
validateComponents(components, trailing) ==
    /\ components[1] \in {"", "/"}
    /\ \A i \in 2..Len(components) : components[i] \notin InvalidNames

----------------------------------------------------------------------------
(* constants: bit names *)

O_ACCMODE == {"O_WRONLY", "O_RDWR"}
O_RDONLY == {}
O_WRONLY == {"O_WRONLY"}
O_RDWR == {"O_RDWR"}
O_APPEND == {"O_APPEND"}

S_IRWXU == {"S_IRUSR", "S_IWUSR", "S_IXUSR"}
S_IRWXG == {"S_IRGRP", "S_IWGRP", "S_IXGRP"}
S_IRWXO == {"S_IROTH", "S_IWOTH", "S_IXOTH"}
Mode777 == S_IRWXU \cup S_IRWXG \cup S_IRWXO
Mode666 == {"S_IRUSR", "S_IWUSR", "S_IRGRP", "S_IWGRP", "S_IROTH", "S_IWOTH"}
Mode444 == {"S_IRUSR", "S_IRGRP", "S_IROTH"}
Mode1777 == Mode777 \cup {"S_ISVTX"}
Umask022 == {"S_IWGRP", "S_IWOTH"}

R_OK == {"r"}
W_OK == {"w"}
X_OK == {"x"}

IN_ALL_EVENTS == {"IN_ACCESS", "IN_MODIFY", "IN_ATTRIB", "IN_CLOSE_WRITE",
                  "IN_CLOSE_NOWRITE", "IN_OPEN", "IN_MOVED_FROM", "IN_MOVED_TO",
                  "IN_CREATE", "IN_DELETE", "IN_DELETE_SELF", "IN_MOVE_SELF"}
IN_MASK == IN_ALL_EVENTS \cup {"IN_EXCL_UNLINK", "IN_ONESHOT"}

----------------------------------------------------------------------------
(* The mutable world that an operation threads through its steps *)

World == [inode |-> inode, buf |-> buf, fsys |-> fsys, wdesc |-> wdesc,
          cnt |-> cnt, events |-> events, calls |-> calls, poll |-> poll,
          stamps |-> stamps, watchers |-> watchers]

Ok(w, v) == [w |-> w, err |-> "OK", val |-> v]
Throw(w, code) == [w |-> w, err |-> code, val |-> 0]

\* const v = ...; Body(v)
Let(v, Body(_)) == Body(v)

\* The statements Body after a call whose outcome is r: skipped when the call threw.
Try(r, Body(_)) == IF r.err # "OK" THEN r ELSE Body(r)

\* node.<field> = this.time() for each of the fields
time(w, h, fields) == [w EXCEPT !.stamps = @ \cup {<<h, x, "time">> : x \in fields}]

----------------------------------------------------------------------------
(* Comparers and core.SortedMap *)

\* The strings that are compared, in the order of their code units.
CodeUnits == <<"", ".", "..", "/", "A", "B", "F", "G", "H", "S",
               "a", "b", "f", "g", "h", "s">>

codeOf(s) == CHOOSE i \in DOMAIN CodeUnits : CodeUnits[i] = s

toUpperCase(s) ==
    CASE s = "a" -> "A" [] s = "b" -> "B" [] s = "f" -> "F"
      [] s = "g" -> "G" [] s = "h" -> "H" [] s = "s" -> "S"
      [] OTHER -> s

compareValues(a, b) == IF a = b THEN 0 ELSE IF a < b THEN -1 ELSE 1

compareStringsCaseSensitive(a, b) == compareValues(codeOf(a), codeOf(b))

compareStringsCaseInsensitive(a, b) ==
    IF a = b THEN 0 ELSE compareValues(codeOf(toUpperCase(a)), codeOf(toUpperCase(b)))

\* vpath.parse on a key of a links map: a root, or a name.
parse(key) == IF key = "/" THEN RootPath ELSE <<"", key>>

\* The loop of compareWorker over the components both paths have.
RECURSIVE compareComponents(_, _, _, _)
compareComponents(aComponents, bComponents, ignoreCase, i) ==
    IF i > Len(aComponents) \/ i > Len(bComponents)
    THEN compareValues(Len(aComponents), Len(bComponents))
    ELSE Let(IF ignoreCase
             THEN compareStringsCaseInsensitive(aComponents[i], bComponents[i])
             ELSE compareStringsCaseSensitive(aComponents[i], bComponents[i]), LAMBDA result :
         IF result # 0 THEN result
         ELSE compareComponents(aComponents, bComponents, ignoreCase, i + 1))

\* vpath.compareCaseSensitive / compareCaseInsensitive on two keys
compareWorker(a, b, ignoreCase) ==
    IF a = b THEN 0
    ELSE compareComponents(reduce(parse(a)), reduce(parse(b)), ignoreCase, 1)

\* A comparer that tells case apart whatever the file system was constructed with.
stringComparerCaseSensitive(ignoreCase, a, b) == compareWorker(a, b, FALSE)

\* FileSystem.stringComparer of a file system constructed with ignoreCase
stringComparer(ignoreCase, a, b) == compareWorker(a, b, ignoreCase)

\* new core.SortedMap(comparer): the keys in the order of the comparer, and the
\* value held for each key.
SortedMap(ignoreCase) == [ignoreCase |-> ignoreCase, keys |-> <<>>, values |-> EmptyMap]

\* core.binarySearch over keys[low..high]: the index of a key that compares equal
\* to key, or minus the index at which key is to be inserted.
RECURSIVE binarySearch(_, _, _, _)
binarySearch(m, key, low, high) ==
    IF low > high THEN -low
    ELSE Let(low + ((high - low) \div 2), LAMBDA middle :
         Let(stringComparer(m.ignoreCase, m.keys[middle], key), LAMBDA c :
         IF c < 0 THEN binarySearch(m, key, middle + 1, high)
         ELSE IF c > 0 THEN binarySearch(m, key, low, middle - 1)
         ELSE middle))

indexOf(m, key) == binarySearch(m, key, 1, Len(m.keys))

SortedMapHas(m, key) == indexOf(m, key) > 0

SortedMapGet(m, key) == m.values[m.keys[indexOf(m, key)]]

SortedMapSize(m) == Len(m.keys)

\* SortedMap.set: the value of a key that compares equal is replaced, a new key is
\* inserted at its place in the order.
SortedMapSet(m, key, value) ==
    Let(indexOf(m, key), LAMBDA index :
    IF index > 0 THEN [m EXCEPT !.values[m.keys[index]] = value]
    ELSE [m EXCEPT !.keys = SubSeq(@, 1, -index - 1) \o <<key>> \o SubSeq(@, -index, Len(@)),
                   !.values = MapSet(@, key, value)])

SortedMapDelete(m, key) ==
    Let(indexOf(m, key), LAMBDA index :
    IF index > 0
    THEN [m EXCEPT !.keys = SubSeq(@, 1, index - 1) \o SubSeq(@, index + 1, Len(@)),
                   !.values = MapDel(@, m.keys[index])]
    ELSE m)

isFileInode(w, h) == w.inode[h].type = "S_IFREG"
isDirectoryInode(w, h) == w.inode[h].type = "S_IFDIR"
isSymlinkInode(w, h) == w.inode[h].type = "S_IFLNK"

\* FileSystem.isReadonly: Object.isFrozen(this)
isReadonly(w, f) == w.fsys[f].frozen

\* An _access that lets uid 0 through and checks nothing else.
_accessSuperuser(w, f, h, mode) == w.fsys[f].uid = 0 \/ mode = {}

\* FileSystem._access
_access(w, f, h, mode) ==
    LET node == w.inode[h]
        other == {b \in {"r", "w", "x"} :
                    \/ b = "r" /\ "S_IROTH" \in node.mode
                    \/ b = "w" /\ "S_IWOTH" \in node.mode
                    \/ b = "x" /\ "S_IXOTH" \in node.mode}
        group == IF w.fsys[f].gid = node.gid
                 THEN {b \in {"r", "w", "x"} :
                        \/ b = "r" /\ "S_IRGRP" \in node.mode
                        \/ b = "w" /\ "S_IWGRP" \in node.mode
                        \/ b = "x" /\ "S_IXGRP" \in node.mode}
                 ELSE {}
        owner == IF w.fsys[f].uid = node.uid
                 THEN {b \in {"r", "w", "x"} :
                        \/ b = "r" /\ "S_IRUSR" \in node.mode
                        \/ b = "w" /\ "S_IWUSR" \in node.mode
                        \/ b = "x" /\ "S_IXUSR" \in node.mode}
                 ELSE {}
        flags == other \cup group \cup owner
    IN (flags \cap mode) = mode

\* FileSystem._mknod: a fresh inode with nlink 1; val is its handle.
_mknod(w, f, type, mode, uid, gid, umask) ==
    LET h == Len(w.inode) + 1
        node == [type |-> type,
                 ino |-> w.cnt.ino + 1,
                 mode |-> (mode \ umask),
                 uid |-> uid,
                 gid |-> gid,
                 nlink |-> 1,
                 size |-> -1,
                 buffer |-> 0,
                 hasLinks |-> FALSE,
                 links |-> SortedMap(FALSE),
                 symlink |-> EmptyPath,
                 shadowRoot |-> 0,
                 source |-> <<>>,
                 watches |-> <<>>]
    IN Ok(time([w EXCEPT !.inode = Append(w.inode, node), !.cnt.ino = w.cnt.ino + 1],
               h, {"atimeMs", "mtimeMs", "ctimeMs", "birthtimeMs"}),
          h)

\* _mknod with the defaults uid = getuid(), gid = getgid(), umask = umask()
_mknodDefault(w, f, type, mode) ==
    _mknod(w, f, type, mode, w.fsys[f].uid, w.fsys[f].gid, w.fsys[f].umask)

\* Buffer.alloc / Buffer.allocUnsafe followed by a full initialisation: val is the
\* handle of a fresh Buffer holding bytes.
allocBuffer(w, bytes) ==
    Ok([w EXCEPT !.buf = Append(w.buf, bytes)], Len(w.buf) + 1)

\* The FileSystemResolver given to mountSync.  Behind it, the directory /s holds
\* the file f ("hi") and the directory h, and h holds the file g.
SourcePath == <<"/", "s">>

\* Behind the resolver too: the directory /u, whose files the resolver lists as
\* g, f, F.
UnorderedSourcePath == <<"/", "u">>

SourceDirs == {SourcePath, SourcePath \o <<"h">>, UnorderedSourcePath}

resolverReaddirSync(path) ==
    IF path = SourcePath THEN <<"f", "h">>
    ELSE IF path = UnorderedSourcePath THEN <<"g", "f", "F">>
    ELSE IF path = SourcePath \o <<"h">> THEN <<"g">>
    ELSE <<>>

resolverReadFileSync(path) == IF path = SourcePath \o <<"f">> THEN <<1, 2>> ELSE <<7>>

resolverStatSync(path) ==
    [type |-> IF path \in SourceDirs THEN "S_IFDIR" ELSE "S_IFREG",
     size |-> IF path \in SourceDirs THEN 0 ELSE Len(resolverReadFileSync(path))]

\* The call resolver.fn(path) is made.
called(w, fn, path) == [w EXCEPT !.calls = Append(@, [fn |-> fn, path |-> path])]

\* _getLinks, the loop over resolver.readdirSync(source): one inode per entry that
\* is a directory or a regular file; val is the children map.
RECURSIVE mountLinksFrom(_, _, _, _, _, _)
mountLinksFrom(w, f, source, names, i, links) ==
    IF i > Len(names) THEN Ok(w, links)
    ELSE
    Let(combine(source, <<"", names[i]>>), LAMBDA path :
    Let(resolverStatSync(path), LAMBDA stats :
    Let(_mknodDefault(called(w, "statSync", path), f, stats.type,
                      IF stats.type = "S_IFDIR" THEN Mode777 ELSE Mode666), LAMBDA n :
    mountLinksFrom(
        [n.w EXCEPT !.inode[n.val].source = path,
                    !.inode[n.val].size = IF stats.type = "S_IFREG" THEN stats.size ELSE -1],
        f, source, names, i + 1, SortedMapSet(links, names[i], n.val)))))

\* FileSystem._copyShadowLinks: one shadow inode per entry of source, in map order.
RECURSIVE copyShadowLinksFrom(_, _, _, _)
copyShadowLinksFrom(w, source, i, target) ==
    IF i > Len(source.keys) THEN Ok(w, target)
    ELSE Let(w.inode[source.values[source.keys[i]]], LAMBDA root :
         copyShadowLinksFrom(
            [w EXCEPT !.inode = Append(@,
                [type |-> root.type,
                 ino |-> root.ino,
                 mode |-> root.mode,
                 uid |-> root.uid,
                 gid |-> root.gid,
                 nlink |-> root.nlink,
                 size |-> -1,
                 buffer |-> 0,
                 hasLinks |-> FALSE,
                 links |-> SortedMap(FALSE),
                 symlink |-> IF root.type = "S_IFLNK" THEN root.symlink ELSE EmptyPath,
                 shadowRoot |-> source.values[source.keys[i]],
                 source |-> <<>>,
                 watches |-> <<>>])],
            source, i + 1, SortedMapSet(target, source.keys[i], Len(w.inode) + 1)))

_copyShadowLinks(w, source, target) == copyShadowLinksFrom(w, source, 1, target)

\* FileSystem._getRootLinks: val is the root map of file system f.
RECURSIVE _getRootLinks(_, _)
_getRootLinks(w, f) ==
    IF w.fsys[f].hasLinks THEN Ok(w, w.fsys[f].links)
    ELSE IF w.fsys[f].shadowRoot # 0
         THEN Let(_getRootLinks(w, w.fsys[f].shadowRoot), LAMBDA r :
              Let(_copyShadowLinks(r.w, r.val, SortedMap(w.fsys[f].ignoreCase)), LAMBDA c :
              Ok([c.w EXCEPT !.fsys[f].hasLinks = TRUE, !.fsys[f].links = c.val], c.val)))
         ELSE Let(SortedMap(w.fsys[f].ignoreCase), LAMBDA links :
              Ok([w EXCEPT !.fsys[f].hasLinks = TRUE, !.fsys[f].links = links], links))

\* FileSystem._getLinks: val is the children map of directory h, materialised on
\* first use from the shadow root.
RECURSIVE _getLinks(_, _, _)
_getLinks(w, f, h) ==
    IF w.inode[h].hasLinks THEN Ok(w, w.inode[h].links)
    ELSE IF w.inode[h].source # <<>>
         THEN Let(w.inode[h].source, LAMBDA source :
              Let(called([w EXCEPT !.inode[h].source = <<>>], "readdirSync", source),
                  LAMBDA w1 :
              Let(mountLinksFrom(w1, f, source, resolverReaddirSync(source), 1,
                                 SortedMap(w.fsys[f].ignoreCase)),
                  LAMBDA c :
              Ok([c.w EXCEPT !.inode[h].hasLinks = TRUE, !.inode[h].links = c.val], c.val))))
    ELSE IF w.fsys[f].shadowRoot # 0 /\ w.inode[h].shadowRoot # 0
         THEN Let(_getLinks(w, w.fsys[f].shadowRoot, w.inode[h].shadowRoot), LAMBDA r :
              Let(_copyShadowLinks(r.w, r.val, SortedMap(w.fsys[f].ignoreCase)), LAMBDA c :
              Ok([c.w EXCEPT !.inode[h].hasLinks = TRUE, !.inode[h].links = c.val], c.val)))
         ELSE Let(SortedMap(w.fsys[f].ignoreCase), LAMBDA links :
              Ok([w EXCEPT !.inode[h].hasLinks = TRUE, !.inode[h].links = links], links))

\* FileSystem._getSize
RECURSIVE _getSize(_, _, _)
_getSize(w, f, h) ==
    IF w.inode[h].buffer # 0 THEN Ok(w, Len(w.buf[w.inode[h].buffer]))
    ELSE IF w.inode[h].size # -1 THEN Ok(w, w.inode[h].size)
    ELSE IF w.inode[h].source # <<>>
         THEN Let(resolverStatSync(w.inode[h].source).size, LAMBDA size :
              Ok([called(w, "statSync", w.inode[h].source) EXCEPT !.inode[h].size = size],
                 size))
    ELSE IF w.fsys[f].shadowRoot # 0 /\ w.inode[h].shadowRoot # 0
         THEN Let(_getSize(w, w.fsys[f].shadowRoot, w.inode[h].shadowRoot), LAMBDA r :
              Ok([r.w EXCEPT !.inode[h].size = r.val], r.val))
         ELSE Ok(w, 0)

\* FileSystem._getBuffer: val is the handle of the inode's Buffer.  A shadow inode
\* takes the Buffer object of its shadow root, not a copy of it.
RECURSIVE _getBuffer(_, _, _)
_getBuffer(w, f, h) ==
    IF w.inode[h].buffer # 0 THEN Ok(w, w.inode[h].buffer)
    ELSE IF w.inode[h].source # <<>>
         THEN Let(w.inode[h].source, LAMBDA source :
              Let(allocBuffer(called([w EXCEPT !.inode[h].source = <<>>,
                                               !.inode[h].size = -1],
                                     "readFileSync", source),
                              resolverReadFileSync(source)), LAMBDA a :
              Ok([a.w EXCEPT !.inode[h].buffer = a.val], a.val)))
    ELSE IF w.fsys[f].shadowRoot # 0 /\ w.inode[h].shadowRoot # 0
         THEN Let(_getBuffer(w, w.fsys[f].shadowRoot, w.inode[h].shadowRoot), LAMBDA r :
              Ok([r.w EXCEPT !.inode[h].buffer = r.val], r.val))
         ELSE Let(allocBuffer(w, <<>>), LAMBDA a :
              Ok([a.w EXCEPT !.inode[h].buffer = a.val], a.val))

\* The SortedMap that _walk holds in its variable links: the root map (ref 0) or
\* the children map of the directory ref.
linksAt(w, f, ref) == IF ref = 0 THEN w.fsys[f].links ELSE w.inode[ref].links

\* The symlink depth at which _walk gives up.
MaxSymlinkDepth == 40

\* A resolver that allows one expansion more.
tooDeepLate(depth) == depth > MaxSymlinkDepth

\* A resolver that never gives up.
tooDeepNever(depth) == FALSE

\* if (depth >= 40) throw ELOOP
tooDeep(depth) == depth >= MaxSymlinkDepth

\* The iterations that the loop of _walk can take on the paths of the model: one
\* scan of the components for every symlink depth.
WalkSteps == (MaxSymlinkDepth + 2) * (MaxChain + 4)

\* _walk leaves its loop with the outcome out: a throw, undefined (val.found is
\* FALSE) or the FileDescription found.
walkReturn(s, out) == [s EXCEPT !.done = TRUE, !.out = out]

\* _walk: the symlink branch of the loop; symlink is the resolved target.
walkSymlink(s, f, symlink) ==
    IF ~isAbsolute(symlink) THEN walkReturn(s, Throw(s.w, "Path not absolute"))
    ELSE [s EXCEPT !.w = _getRootLinks(s.w, f).w,
                   !.links = 0,
                   !.parent = 0,
                   !.components = symlink \o SubSeq(s.components, s.step + 2, Len(s.components)),
                   !.step = 0,
                   !.depth = s.depth + 1]

\* _walk: the loop body once links.get(basename) has given node
walkNode(s, f, noFollow, lastStep, name, node) ==
    IF isSymlinkInode(s.w, node) /\ ~(noFollow /\ lastStep)
    THEN walkSymlink(s, f, resolve(format(SubSeq(s.components, 1, s.step)),
                                   parsePath(s.w.inode[node].symlink)))
    ELSE IF lastStep
    THEN IF s.parent = 0 /\ ~isDirectoryInode(s.w, node)
         THEN walkReturn(s, Throw(s.w, "ENOENT"))
         ELSE walkReturn(s, Ok(s.w, [found |-> TRUE, path |-> format(s.components),
                                     basename |-> name,
                                     parent |-> IF s.parent = 0 THEN node ELSE s.parent,
                                     node |-> node]))
    ELSE IF isDirectoryInode(s.w, node)
    THEN IF ~_access(s.w, f, node, X_OK) THEN walkReturn(s, Throw(s.w, "EACCES"))
         ELSE [s EXCEPT !.w = _getLinks(s.w, f, node).w,
                        !.links = node,
                        !.parent = node,
                        !.step = s.step + 1]
    ELSE walkReturn(s, Throw(s.w, "ENOTDIR"))

\* _walk: one iteration of while (step < components.length), on the loop state
\* s = (components, step, depth, links, parent); the end of the loop returns undefined.
walkStep(s, f, noFollow) ==
    IF ~(s.step < Len(s.components)) THEN walkReturn(s, Ok(s.w, [found |-> FALSE]))
    ELSE IF tooDeep(s.depth) THEN walkReturn(s, Throw(s.w, "ELOOP"))
    ELSE IF ~SortedMapHas(linksAt(s.w, f, s.links), s.components[s.step + 1])
    THEN walkReturn(s, Ok(s.w, [found |-> FALSE]))
    ELSE walkNode(s, f, noFollow, s.step = Len(s.components) - 1, s.components[s.step + 1],
                  SortedMapGet(linksAt(s.w, f, s.links), s.components[s.step + 1]))

\* _walk: up to n iterations of the loop from the state s, stopping at a return.
RECURSIVE walkIterate(_, _, _, _)
walkIterate(s, f, noFollow, n) ==
    IF s.done THEN s
    ELSE IF n <= 1 THEN walkStep(s, f, noFollow)
    ELSE CHOOSE r \in {walkIterate(half, f, noFollow, n - (n \div 2)) :
                            half \in {walkIterate(s, f, noFollow, n \div 2)}} : TRUE

\* _walk: the variables of the loop before its first iteration
walkStart(w, f, path) ==
    [w |-> _getRootLinks(w, f).w, components |-> path, step |-> 0, depth |-> 0,
     links |-> 0, parent |-> 0, done |-> FALSE, out |-> Throw(w, "")]

\* FileSystem._walk
_walk(w, f, path, noFollow) ==
    walkIterate(walkStart(w, f, path), f, noFollow, WalkSteps).out

_find(w, f, path) == _walk(w, f, path, FALSE)
_lfind(w, f, path) == _walk(w, f, path, TRUE)

\* vpath.validate, for a path whose components are all valid: the reduced path.
validate(path) == reduce(path)

\* vpath.validate of a path string: the string of the reduced components, which
\* keeps one trailing separator.
validatePath(w, path) ==
    Let(parsePath(path), LAMBDA components :
    Let(hasTrailingSeparator(path), LAMBDA trailing :
    IF ~validateComponents(components, trailing) THEN Throw(w, "ENOENT")
    ELSE IF Len(components) > 1 /\ trailing
    THEN Ok(w, formatPath(reduce(components)) \o <<sep>>)
    ELSE Ok(w, formatPath(reduce(components)))))

\* FileSystem._resolve
_resolve(w, f, path) ==
    IF w.fsys[f].cwd # EmptyPath THEN resolve(w.fsys[f].cwd, validate(path))
    ELSE validate(path)

----------------------------------------------------------------------------
(* inotify *)

\* An absent optional argument (name?: string).
Undefined == "<undefined>"

\* The entries of an inode's watches map (inotify fd -> watch), in insertion order,
\* are records [fd, wd].
watchesDelete(watches, fd) == SelectSeq(watches, LAMBDA e : e.fd # fd)

\* watcher.watches.delete(wd); watcher.paths.delete(path) on the inotify descriptor
\* of the watch, which stays reachable from the watch after it was closed.
watcherDelete(w, watch) ==
    IF watch.watcher \in DOMAIN w.fsys[watch.fs].openFiles
    THEN [w EXCEPT !.fsys[watch.fs].openFiles[watch.watcher].watches = @ \ {watch.wd},
                   !.fsys[watch.fs].openFiles[watch.watcher].paths = MapDel(@, watch.path)]
    ELSE w

\* A removal that takes the watch out of the maps of its descriptor and leaves it
\* in the watch map of its inode.
removeOneWatchHalf(w, wd) == watcherDelete(w, w.wdesc[wd])

\* The three deletions of _inotifyRemoveOneWatch.
removeOneWatch(w, wd) ==
    watcherDelete([w EXCEPT !.inode[w.wdesc[wd].node].watches =
                                watchesDelete(@, w.wdesc[wd].watcher)],
                  w.wdesc[wd])

\* A delivery that hands every watch the whole mask of the notification.
deliveredAll(mask, watch) == mask

\* The event that a watch is handed for mask: (mask & watch.mask) | (mask & ~IN_ALL_EVENTS)
delivered(mask, watch) == (mask \cap watch.mask) \cup (mask \ IN_ALL_EVENTS)

\* An _inotifyNotifyOneWatch that leaves a one-shot watch in place.
_inotifyNotifyOneWatchKept(w, wd, mask, name, cookie) ==
    IF delivered(mask, w.wdesc[wd]) = {} THEN w
    ELSE [w EXCEPT !.events =
             Append(@, [fd |-> w.wdesc[wd].watcher,
                        wd |-> wd,
                        mask |-> delivered(mask, w.wdesc[wd]),
                        name |-> IF name = Undefined THEN basename(w.wdesc[wd].path)
                                 ELSE name,
                        cookie |-> cookie])]

\* FileSystem._inotifyNotifyOneWatch: returns the world.
_inotifyNotifyOneWatch(w, wd, mask, name, cookie) ==
    IF delivered(mask, w.wdesc[wd]) = {} THEN w
    ELSE Let([w EXCEPT !.events =
                 Append(@, [fd |-> w.wdesc[wd].watcher,
                            wd |-> wd,
                            mask |-> delivered(mask, w.wdesc[wd]),
                            name |-> IF name = Undefined THEN basename(w.wdesc[wd].path)
                                     ELSE name,
                            cookie |-> cookie])],
             LAMBDA w1 :
         IF "IN_ONESHOT" \in w.wdesc[wd].mask THEN removeOneWatch(w1, wd) ELSE w1)

\* FileSystem._inotifyRemoveOneWatch
_inotifyRemoveOneWatch(w, wd, notifyIgnored) ==
    IF notifyIgnored
    THEN _inotifyNotifyOneWatch(removeOneWatch(w, wd), wd, {"IN_IGNORED"}, Undefined, 0)
    ELSE removeOneWatch(w, wd)

\* FileSystem._inotifyNotifyAllWatches over the watches wds[i..].
RECURSIVE notifyAllFrom(_, _, _, _, _, _)
notifyAllFrom(w, wds, i, mask, name, cookie) ==
    IF i > Len(wds) THEN w
    ELSE notifyAllFrom(_inotifyNotifyOneWatch(w, wds[i], mask, name, cookie),
                       wds, i + 1, mask, name, cookie)

_inotifyNotifyAllWatches(w, wds, mask, name, cookie) ==
    notifyAllFrom(w, wds, 1, mask, name, cookie)

watchValues(watches) == [i \in 1..Len(watches) |-> watches[i].wd]

\* FileSystem._notify
_notify(w, h, mask, name, cookie) ==
    IF Len(w.inode[h].watches) > 0
    THEN _inotifyNotifyAllWatches(w, watchValues(w.inode[h].watches), mask, name, cookie)
    ELSE w

\* The loop of _inotifyRemoveAllWatches over the watcher maps.
RECURSIVE detachAllFrom(_, _, _)
detachAllFrom(w, wds, i) ==
    IF i > Len(wds) THEN w
    ELSE detachAllFrom(watcherDelete(w, w.wdesc[wds[i]]), wds, i + 1)

\* An _inotifyRemoveAllWatches that detaches the watches and tells nobody.
_inotifyRemoveAllWatchesSilent(w, h) ==
    IF Len(w.inode[h].watches) > 0
    THEN detachAllFrom([w EXCEPT !.inode[h].watches = <<>>],
                       watchValues(w.inode[h].watches), 1)
    ELSE w

\* FileSystem._inotifyRemoveAllWatches
_inotifyRemoveAllWatches(w, h) ==
    IF Len(w.inode[h].watches) > 0
    THEN _inotifyNotifyAllWatches(
            detachAllFrom([w EXCEPT !.inode[h].watches = <<>>],
                          watchValues(w.inode[h].watches), 1),
            watchValues(w.inode[h].watches), {"IN_IGNORED"}, Undefined, 0)
    ELSE w

----------------------------------------------------------------------------
(* Directory operations *)

\* links.set(name, h) / links.delete(name) on the root map (ref 0) or on the
\* children map of directory ref.
linksSet(w, f, ref, name, h) ==
    IF ref = 0 THEN [w EXCEPT !.fsys[f].links = SortedMapSet(@, name, h)]
    ELSE [w EXCEPT !.inode[ref].links = SortedMapSet(@, name, h)]

\* A links.delete(name) that leaves the name in the map.
linksKeep(w, f, ref, name) == w

linksDelete(w, f, ref, name) ==
    IF ref = 0 THEN [w EXCEPT !.fsys[f].links = SortedMapDelete(@, name)]
    ELSE [w EXCEPT !.inode[ref].links = SortedMapDelete(@, name)]

\* if (parent.mode & S_ISGID) { node.mode |= S_ISGID; node.gid = parent.gid; }
inheritGid(w, parent, node) ==
    IF "S_ISGID" \in w.inode[parent].mode
    THEN [w EXCEPT !.inode[node].mode = @ \cup {"S_ISGID"},
                   !.inode[node].gid = w.inode[parent].gid]
    ELSE w

\* mkdirSync, the special case for FS root
mkdirRoot(w0, f, path, mode) ==
    IF w0.fsys[f].uid # 0 THEN Throw(w0, "EPERM")
    ELSE
    Let(_getRootLinks(w0, f), LAMBDA g :
    IF SortedMapHas(g.val, path[1]) THEN Throw(g.w, "EEXIST")
    ELSE IF isReadonly(g.w, f) THEN Throw(g.w, "EROFS")
    ELSE
    Let(_mknod(g.w, f, "S_IFDIR", mode, 0, 0, {}), LAMBDA n :
    Let(linksSet(n.w, f, 0, path[1], n.val), LAMBDA w1 :
    IF w1.fsys[f].cwd = EmptyPath THEN Ok([w1 EXCEPT !.fsys[f].cwd = path], 0)
    ELSE Ok(w1, 0))))

\* mkdirSync below a parent directory
mkdirChild(w0, f, path, mode) ==
    Try(_find(w0, f, dirname(path)), LAMBDA pe :
    IF ~pe.val.found THEN Throw(pe.w, "ENOENT")
    ELSE IF ~isDirectoryInode(pe.w, pe.val.node) THEN Throw(pe.w, "ENOTDIR")
    ELSE IF ~_access(pe.w, f, pe.val.node, W_OK) THEN Throw(pe.w, "EACCES")
    ELSE
    Let(_getLinks(pe.w, f, pe.val.node), LAMBDA g :
    IF SortedMapHas(g.val, basename(path)) THEN Throw(g.w, "EEXIST")
    ELSE IF isReadonly(g.w, f) THEN Throw(g.w, "EROFS")
    ELSE
    Let(_mknodDefault(g.w, f, "S_IFDIR", mode), LAMBDA n :
    Ok(_notify(inheritGid(time(linksSet(n.w, f, pe.val.node, basename(path), n.val),
                               pe.val.node, {"mtimeMs"}),
                          pe.val.node, n.val),
               pe.val.node, {"IN_CREATE", "IN_ISDIR"}, basename(path), 0),
       0))))

\* FileSystem.mkdirSync
mkdirSync(w0, f, path0, mode0) ==
    Let(_resolve(w0, f, path0), LAMBDA path :
    IF dirname(path) = path THEN mkdirRoot(w0, f, path, mode0 \cap Mode1777)
    ELSE mkdirChild(w0, f, path, mode0 \cap Mode1777))

\* A mount that reads the source directory at once.
mountNodeEager(w, n, source) ==
    called([w EXCEPT !.inode[n].source = source], "readdirSync", source)

\* node.source = source; node.resolver = resolver
mountNode(w, n, source) == [w EXCEPT !.inode[n].source = source]

\* mountSync at the root of the file system
mountRoot(w0, f, source, target, mode) ==
    IF w0.fsys[f].uid # 0 THEN Throw(w0, "EPERM")
    ELSE
    Let(_getRootLinks(w0, f), LAMBDA g :
    IF SortedMapHas(g.val, target[1]) THEN Throw(g.w, "EEXIST")
    ELSE IF isReadonly(g.w, f) THEN Throw(g.w, "EROFS")
    ELSE
    Let(_mknod(g.w, f, "S_IFDIR", mode, 0, 0, {}), LAMBDA n :
    Let(linksSet(mountNode(n.w, n.val, source), f, 0, target[1], n.val),
        LAMBDA w1 :
    IF w1.fsys[f].cwd = EmptyPath THEN Ok([w1 EXCEPT !.fsys[f].cwd = target], 0)
    ELSE Ok(w1, 0))))

\* mountSync below a parent directory
mountChild(w0, f, source, target, mode) ==
    Try(_find(w0, f, dirname(target)), LAMBDA pe :
    IF ~pe.val.found THEN Throw(pe.w, "ENOENT")
    ELSE IF ~isDirectoryInode(pe.w, pe.val.node) THEN Throw(pe.w, "ENOTDIR")
    ELSE IF ~_access(pe.w, f, pe.val.node, W_OK) THEN Throw(pe.w, "EACCES")
    ELSE
    Let(_getLinks(pe.w, f, pe.val.node), LAMBDA g :
    IF SortedMapHas(g.val, basename(target)) THEN Throw(g.w, "EEXIST")
    ELSE IF isReadonly(g.w, f) THEN Throw(g.w, "EROFS")
    ELSE
    Let(_mknodDefault(g.w, f, "S_IFDIR", mode), LAMBDA n :
    Ok(_notify(time(linksSet(mountNode(n.w, n.val, source),
                             f, pe.val.node, basename(target), n.val),
                    pe.val.node, {"mtimeMs"}),
               pe.val.node, {"IN_CREATE", "IN_ISDIR"}, basename(target), 0),
       0))))

\* FileSystem.mountSync(source, target, resolver, mode)
mountSync(w0, f, source0, target0, mode0) ==
    Let(_resolve(w0, f, target0), LAMBDA target :
    IF dirname(target) = target
    THEN mountRoot(w0, f, validate(source0), target, mode0 \cap Mode1777)
    ELSE mountChild(w0, f, validate(source0), target, mode0 \cap Mode1777))

\* if (node.nlink === 0) this._inotifyRemoveAllWatches(node)
removeWatchesIfUnlinked(w, node) ==
    IF w.inode[node].nlink = 0 THEN _inotifyRemoveAllWatches(w, node) ELSE w

\* FileSystem.rmdirSync
rmdirSync(w0, f, path0) ==
    Let(_resolve(w0, f, path0), LAMBDA path :
    Try(_find(w0, f, path), LAMBDA e :
    IF ~e.val.found THEN Throw(e.w, "ENOENT")
    ELSE IF ~isDirectoryInode(e.w, e.val.node) THEN Throw(e.w, "ENOTDIR")
    ELSE
    Let(_getLinks(e.w, f, e.val.node), LAMBDA g :
    IF SortedMapSize(g.val) # 0 THEN Throw(g.w, "ENOTEMPTY")
    ELSE IF ~_access(g.w, f, e.val.parent, W_OK) THEN Throw(g.w, "EACCES")
    ELSE IF isReadonly(g.w, f) THEN Throw(g.w, "EROFS")
    ELSE
    Let(time(linksDelete(_getLinks(g.w, f, e.val.parent).w, f, e.val.parent,
                         basename(path)),
             e.val.parent, {"mtimeMs"}),
        LAMBDA w1 :
    Let(time([w1 EXCEPT !.inode[e.val.node].nlink = @ - 1], e.val.node, {"ctimeMs"}),
        LAMBDA w2 :
    Let(_notify(w2, e.val.parent, {"IN_DELETE", "IN_ISDIR"}, e.val.basename, 0), LAMBDA w3 :
    Let(_notify(w3, e.val.node, {"IN_DELETE_SELF"}, e.val.basename, 0), LAMBDA w4 :
    Ok(removeWatchesIfUnlinked(w4, e.val.node), 0))))))))

\* FileSystem.linkSync
linkSync(w0, f, oldpath0, newpath0) ==
    Let(_resolve(w0, f, newpath0), LAMBDA newpath :
    Try(_find(w0, f, _resolve(w0, f, oldpath0)), LAMBDA e :
    IF ~e.val.found THEN Throw(e.w, "ENOENT")
    ELSE IF isDirectoryInode(e.w, e.val.node) THEN Throw(e.w, "EPERM")
    ELSE
    Try(_find(e.w, f, dirname(newpath)), LAMBDA p :
    IF ~p.val.found THEN Throw(p.w, "ENOENT")
    ELSE IF ~isDirectoryInode(p.w, p.val.node) THEN Throw(p.w, "ENOTDIR")
    ELSE
    Let(_getLinks(p.w, f, p.val.node), LAMBDA g :
    IF SortedMapHas(g.val, basename(newpath)) THEN Throw(g.w, "EEXIST")
    ELSE IF ~_access(g.w, f, p.val.node, W_OK) THEN Throw(g.w, "EACCES")
    ELSE IF isReadonly(g.w, f) THEN Throw(g.w, "EROFS")
    ELSE
    Let(time(linksSet(g.w, f, p.val.node, basename(newpath), e.val.node),
             p.val.node, {"mtimeMs"}),
        LAMBDA w1 :
    Let(time([w1 EXCEPT !.inode[e.val.node].nlink = @ + 1], e.val.node, {"ctimeMs"}),
        LAMBDA w2 :
    Let(_notify(w2, p.val.node, {"IN_CREATE"}, basename(newpath), 0), LAMBDA w3 :
    Ok(_notify(w3, e.val.node, {"IN_ATTRIB"}, e.val.basename, 0), 0))))))))

\* unlinkSync: if (node.nlink === 0) { notify IN_DELETE_SELF; remove all watches }
deleteSelfIfUnlinked(w, node) ==
    IF w.inode[node].nlink = 0
    THEN _inotifyRemoveAllWatches(_notify(w, node, {"IN_DELETE_SELF"}, Undefined, 0), node)
    ELSE w

\* FileSystem.unlinkSync
unlinkSync(w0, f, path0) ==
    Try(_lfind(w0, f, _resolve(w0, f, path0)), LAMBDA e :
    IF ~e.val.found THEN Throw(e.w, "ENOENT")
    ELSE IF isDirectoryInode(e.w, e.val.node) THEN Throw(e.w, "EISDIR")
    ELSE IF ~_access(e.w, f, e.val.parent, W_OK) THEN Throw(e.w, "EACCES")
    ELSE IF isReadonly(e.w, f) THEN Throw(e.w, "EROFS")
    ELSE
    Let(time(linksDelete(_getLinks(e.w, f, e.val.parent).w, f, e.val.parent,
                         e.val.basename),
             e.val.parent, {"mtimeMs"}),
        LAMBDA w1 :
    Let(time([w1 EXCEPT !.inode[e.val.node].nlink = @ - 1], e.val.node, {"ctimeMs"}),
        LAMBDA w2 :
    Let(_notify(w2, e.val.parent, {"IN_DELETE"}, e.val.basename, 0), LAMBDA w3 :
    Let(_notify(w3, e.val.node, {"IN_ATTRIB"}, Undefined, 0), LAMBDA w4 :
    Ok(deleteSelfIfUnlinked(w4, e.val.node), 0))))))

\* Checks of renameSync that let a directory take the place of a non-empty one.
renameExistingAny(w, f, oldNode, newParent, newBasename) ==
    Let(_getLinks(w, f, newParent), LAMBDA g :
    IF ~SortedMapHas(g.val, newBasename) THEN Ok(g.w, 0)
    ELSE
    Let(SortedMapGet(g.val, newBasename), LAMBDA existingNode :
    IF isDirectoryInode(g.w, oldNode)
    THEN IF ~isDirectoryInode(g.w, existingNode) THEN Throw(g.w, "ENOTDIR")
         ELSE Ok(g.w, existingNode)
    ELSE IF isDirectoryInode(g.w, existingNode) THEN Throw(g.w, "EISDIR")
         ELSE Ok(g.w, existingNode)))

\* renameSync: the checks on the node that the new name displaces.  val is the
\* displaced inode, 0 when there is none.
renameExisting(w, f, oldNode, newParent, newBasename) ==
    Let(_getLinks(w, f, newParent), LAMBDA g :
    IF ~SortedMapHas(g.val, newBasename) THEN Ok(g.w, 0)
    ELSE
    Let(SortedMapGet(g.val, newBasename), LAMBDA existingNode :
    IF isDirectoryInode(g.w, oldNode)
    THEN IF ~isDirectoryInode(g.w, existingNode) THEN Throw(g.w, "ENOTDIR")
         ELSE Let(_getLinks(g.w, f, existingNode), LAMBDA ge :
              IF SortedMapSize(ge.val) > 0 THEN Throw(ge.w, "ENOTEMPTY")
              ELSE Ok(ge.w, existingNode))
    ELSE IF isDirectoryInode(g.w, existingNode) THEN Throw(g.w, "EISDIR")
         ELSE Ok(g.w, existingNode)))

\* renameSync: if (existingNode) { existingNode.nlink--; if (nlink === 0) remove watches }
renameDisplace(w, existingNode) ==
    IF existingNode = 0 THEN w
    ELSE removeWatchesIfUnlinked(time([w EXCEPT !.inode[existingNode].nlink = @ - 1],
                                      existingNode, {"ctimeMs"}),
                                 existingNode)

\* A renameSync whose IN_MOVED_TO event carries no cookie.
renameNotifyUnpaired(w, oldParent, oldNode, oldBasename, newParent, newBasename, cookie) ==
    _notify(
        _notify(
            _notify([w EXCEPT !.cnt.cookie = cookie],
                    oldParent, {"IN_MOVED_FROM"}, oldBasename, cookie),
            newParent, {"IN_MOVED_TO"}, newBasename, 0),
        oldNode, {"IN_MOVE_SELF"}, oldBasename, 0)

\* A renameSync that leaves cookieCount as it was.
renameNotifyUncounted(w, oldParent, oldNode, oldBasename, newParent, newBasename, cookie) ==
    _notify(
        _notify(
            _notify(w, oldParent, {"IN_MOVED_FROM"}, oldBasename, cookie),
            newParent, {"IN_MOVED_TO"}, newBasename, cookie),
        oldNode, {"IN_MOVE_SELF"}, oldBasename, 0)

\* renameSync: the notifications, with cookie = ++cookieCount
renameNotify(w, oldParent, oldNode, oldBasename, newParent, newBasename, cookie) ==
    _notify(
        _notify(
            _notify([w EXCEPT !.cnt.cookie = cookie],
                    oldParent, {"IN_MOVED_FROM"}, oldBasename, cookie),
            newParent, {"IN_MOVED_TO"}, newBasename, cookie),
        oldNode, {"IN_MOVE_SELF"}, oldBasename, 0)

\* FileSystem.renameSync
renameSync(w0, f, oldpath0, newpath0) ==
    Let(_resolve(w0, f, newpath0), LAMBDA newpath :
    Try(_lfind(w0, f, _resolve(w0, f, oldpath0)), LAMBDA e :
    IF ~e.val.found THEN Throw(e.w, "ENOENT")
    ELSE
    Try(_find(e.w, f, dirname(newpath)), LAMBDA p :
    IF ~p.val.found THEN Throw(p.w, "ENOENT")
    ELSE IF ~isDirectoryInode(p.w, p.val.node) THEN Throw(p.w, "ENOTDIR")
    ELSE
    Try(renameExisting(p.w, f, e.val.node, p.val.node, basename(newpath)), LAMBDA x :
    IF ~_access(x.w, f, e.val.parent, W_OK) THEN Throw(x.w, "EACCES")
    ELSE IF ~_access(x.w, f, p.val.node, W_OK) THEN Throw(x.w, "EACCES")
    ELSE IF isReadonly(x.w, f) THEN Throw(x.w, "EROFS")
    ELSE
    Let(renameDisplace(x.w, x.val), LAMBDA w1 :
    Let(linksDelete(_getLinks(w1, f, e.val.parent).w, f, e.val.parent, e.val.basename),
        LAMBDA w2 :
    Let(time(time(linksSet(w2, f, p.val.node, basename(newpath), e.val.node),
                  e.val.parent, {"mtimeMs"}),
             p.val.node, {"mtimeMs"}),
        LAMBDA w3 :
    Ok(renameNotify(w3, e.val.parent, e.val.node, e.val.basename,
                    p.val.node, basename(newpath), w3.cnt.cookie + 1),
       0))))))))

\* FileSystem.symlinkSync
symlinkSync(w0, f, target0, linkpath0) ==
    Try(validatePath(w0, target0), LAMBDA target :
    Let(_resolve(w0, f, linkpath0), LAMBDA linkpath :
    Try(_find(w0, f, dirname(linkpath)), LAMBDA p :
    IF ~p.val.found THEN Throw(p.w, "ENOENT")
    ELSE IF ~isDirectoryInode(p.w, p.val.node) THEN Throw(p.w, "ENOTDIR")
    ELSE
    Let(_getLinks(p.w, f, p.val.node), LAMBDA g :
    IF SortedMapHas(g.val, basename(linkpath)) THEN Throw(g.w, "EEXIST")
    ELSE IF ~_access(g.w, f, p.val.node, W_OK) THEN Throw(g.w, "EACCES")
    ELSE IF isReadonly(g.w, f) THEN Throw(g.w, "EROFS")
    ELSE
    Let(_mknodDefault(g.w, f, "S_IFLNK", Mode666), LAMBDA n :
    Let([n.w EXCEPT !.inode[n.val].symlink = target.val], LAMBDA w1 :
    Ok(_notify(time(linksSet(w1, f, p.val.node, basename(linkpath), n.val),
                    p.val.node, {"mtimeMs"}),
               p.val.node, {"IN_CREATE", "IN_ISDIR"}, basename(linkpath), 0),
       0)))))))

\* FileSystem.readlinkSync: val is node.symlink
readlinkSync(w0, f, path0) ==
    Try(_lfind(w0, f, _resolve(w0, f, path0)), LAMBDA e :
    IF ~e.val.found THEN Throw(e.w, "ENOENT")
    ELSE IF ~isSymlinkInode(e.w, e.val.node) THEN Throw(e.w, "EINVAL")
    ELSE Ok(e.w, e.w.inode[e.val.node].symlink))

----------------------------------------------------------------------------
(* The descriptor table *)

isOpenFileDescription(file) == file.kind = "open"
isInotifyDescription(file) == file.kind = "inotify"
isReadable(file) == (file.flags \cap O_ACCMODE) # O_WRONLY
isWritable(file) == (file.flags \cap O_ACCMODE) # O_RDONLY

\* _file: the checks on an OpenFileDescription entry
fileChecks(w, entry, kind, mode) ==
    IF kind = "file" /\ isDirectoryInode(w, entry.node) THEN "EISDIR"
    ELSE IF kind = "file" /\ ~isFileInode(w, entry.node) THEN "EBADF"
    ELSE IF kind = "directory" /\ ~isDirectoryInode(w, entry.node) THEN "EBADF"
    ELSE IF "w" \in mode /\ ~isWritable(entry) THEN "EBADF"
    ELSE IF "r" \in mode /\ ~isReadable(entry) THEN "EBADF"
    ELSE "OK"

\* A descriptor table that knows EINVAL only.
_fileInvalid(w, f, fd, source, kind, mode) == Throw(w, "EINVAL")

\* FileSystem._file(syscall, fd, source, kind, mode): val is fd itself when the
\* descriptor passes the checks.  source and kind are "" when not given.
_file(w, f, fd, source, kind, mode) ==
    IF fd \notin DOMAIN w.fsys[f].openFiles THEN Throw(w, "EBADF")
    ELSE IF source = "open" /\ ~isOpenFileDescription(w.fsys[f].openFiles[fd])
    THEN Throw(w, "EBADF")
    ELSE IF source = "inotify" /\ ~isInotifyDescription(w.fsys[f].openFiles[fd])
    THEN Throw(w, "EBADF")
    ELSE IF isOpenFileDescription(w.fsys[f].openFiles[fd])
            /\ fileChecks(w, w.fsys[f].openFiles[fd], kind, mode) # "OK"
    THEN Throw(w, fileChecks(w, w.fsys[f].openFiles[fd], kind, mode))
    ELSE Ok(w, fd)

\* _fsync: entry.node.buffer = entry.buffer; mtimeMs and ctimeMs = this.time();
\* if (metadata) entry.node.size = ...
publish(w, entry, metadata) ==
    Let(time(w, entry.node, {"mtimeMs", "ctimeMs"}), LAMBDA w1 :
    IF metadata
    THEN [w1 EXCEPT !.inode[entry.node].buffer = entry.buffer,
                    !.inode[entry.node].size = Len(w.buf[entry.buffer])]
    ELSE [w1 EXCEPT !.inode[entry.node].buffer = entry.buffer])

\* FileSystem._fsync(entry, metadata): entry is the descriptor object, which
\* closeSync has already taken out of the table when it publishes.
_fsync(w, entry, metadata) ==
    IF isFileInode(w, entry.node) /\ entry.buffer # 0
       /\ entry.buffer # w.inode[entry.node].buffer
    THEN _notify(_notify(publish(w, entry, metadata),
                         entry.parent, {"IN_MODIFY"}, entry.basename, 0),
                 entry.node, {"IN_MODIFY"}, entry.basename, 0)
    ELSE w

\* FileSystem.fsyncSync
fsyncSync(w0, f, fd) ==
    Try(_file(w0, f, fd, "open", "file", {}), LAMBDA e :
    Ok(_fsync(e.w, e.w.fsys[f].openFiles[fd], TRUE), 0))

\* FileSystem.fdatasyncSync
fdatasyncSync(w0, f, fd) ==
    Try(_file(w0, f, fd, "open", "file", {}), LAMBDA e :
    Ok(_fsync(e.w, e.w.fsys[f].openFiles[fd], FALSE), 0))

\* A fresh descriptor record.
OpenFile(path, name, parent, node, flags, offset) ==
    [kind |-> "open", path |-> path, basename |-> name, parent |-> parent, node |-> node,
     flags |-> flags, offset |-> offset, written |-> FALSE, buffer |-> 0,
     watches |-> {}, paths |-> EmptyMap]

\* openSync when the path names nothing: the file is created.  val is
\* [node, parent, flags] for the rest of openSync.
openCreate(w, f, path, flags, mode) ==
    IF "O_CREAT" \notin flags THEN Throw(w, "ENOENT")
    ELSE IF "O_DIRECTORY" \in flags THEN Throw(w, "ENOTDIR")
    ELSE
    Try(_walk(w, f, dirname(path), FALSE), LAMBDA pe :
    IF ~pe.val.found THEN Throw(pe.w, "ENOENT")
    ELSE IF ~isDirectoryInode(pe.w, pe.val.node) THEN Throw(pe.w, "ENOTDIR")
    ELSE IF ~_access(pe.w, f, pe.val.node, W_OK) THEN Throw(pe.w, "EACCES")
    ELSE
    Let(_mknodDefault(pe.w, f, "S_IFREG", mode), LAMBDA n :
    Let(allocBuffer(n.w, <<>>), LAMBDA a :
    Let([a.w EXCEPT !.inode[n.val].buffer = a.val], LAMBDA w1 :
    Let(time(linksSet(_getLinks(w1, f, pe.val.node).w, f, pe.val.node, basename(path),
                      n.val),
             pe.val.node, {"mtimeMs"}),
        LAMBDA w2 :
    Ok(_notify(inheritGid(w2, pe.val.node, n.val), pe.val.node, {"IN_CREATE"},
               basename(path), 0),
       [node |-> n.val, parent |-> pe.val.node, flags |-> flags \ {"O_TRUNC"}]))))))

\* openSync: the node and parent of the new descriptor
openEntry(w, f, path, flags, mode) ==
    Try(_walk(w, f, path, "O_NOFOLLOW" \in flags), LAMBDA entry :
    IF ~entry.val.found THEN openCreate(entry.w, f, path, flags, mode)
    ELSE IF "O_EXCL" \in flags THEN Throw(entry.w, "EEXIST")
    ELSE Ok(entry.w, [node |-> entry.val.node, parent |-> entry.val.parent, flags |-> flags]))

\* openSync: the offset of the new descriptor
openOffset(w, f, node, flags) ==
    IF isFileInode(w, node) /\ (flags \cap {"O_APPEND", "O_TRUNC"}) = {"O_APPEND"}
    THEN _getSize(w, f, node) ELSE Ok(w, 0)

\* openSync: the descriptor is entered in the table and announced
openFile(w, f, fd, file) ==
    Let(_notify(_notify([w EXCEPT !.fsys[f].openFiles = MapSet(@, fd, file)],
                        file.parent, {"IN_OPEN"}, file.basename, 0),
                file.node, {"IN_OPEN"}, file.basename, 0),
        LAMBDA w1 :
    IF "O_TRUNC" \in file.flags
    THEN Let(allocBuffer(w1, <<>>), LAMBDA a :
         Ok([a.w EXCEPT !.fsys[f].openFiles[fd].buffer = a.val], fd))
    ELSE Ok(w1, fd))

\* const read = (flags & O_ACCMODE) !== O_WRONLY
openRead(flags) == (flags \cap O_ACCMODE) # O_WRONLY

\* const write = flags & O_ACCMODE && flags & O_CREAT | O_TRUNC, where | binds
\* tighter than &&
openWrite(flags) ==
    (flags \cap O_ACCMODE) # {} /\ ((flags \cap {"O_CREAT"}) \cup {"O_TRUNC"}) # {}

\* FileSystem.openSync: val is the new fd.
openSync(w0, f, path0, flags0, mode) ==
    Let(_resolve(w0, f, path0), LAMBDA path :
    IF openWrite(flags0) /\ isReadonly(w0, f) THEN Throw(w0, "EROFS")
    ELSE
    Try(openEntry(w0, f, path, flags0, mode), LAMBDA c :
    IF "O_DIRECTORY" \in c.val.flags /\ isFileInode(c.w, c.val.node) THEN Throw(c.w, "ENOTDIR")
    ELSE IF openWrite(flags0) /\ isDirectoryInode(c.w, c.val.node) THEN Throw(c.w, "EISDIR")
    ELSE IF openWrite(flags0) /\ ~_access(c.w, f, c.val.node, W_OK) THEN Throw(c.w, "EACCES")
    ELSE IF openRead(flags0) /\ ~_access(c.w, f, c.val.node, R_OK) THEN Throw(c.w, "EACCES")
    ELSE
    Let([c.w EXCEPT !.cnt.fd = @ + 1], LAMBDA w1 :
    Let(openOffset(w1, f, c.val.node, c.val.flags), LAMBDA sz :
    openFile(sz.w, f, w1.cnt.fd,
             OpenFile(path, basename(path), c.val.parent, c.val.node, c.val.flags, sz.val))))))

\* The loop of closeSync over the watches of an inotify descriptor.
RECURSIVE closeDetach(_, _, _)
closeDetach(w, fd, wds) ==
    IF wds = {} THEN w
    ELSE Let(CHOOSE x \in wds : TRUE, LAMBDA wd :
         closeDetach([w EXCEPT !.inode[w.wdesc[wd].node].watches = watchesDelete(@, fd)],
                     fd, wds \ {wd}))

\* closeSync of an OpenFileDescription: publish, then IN_CLOSE_WRITE or IN_CLOSE_NOWRITE
closeFile(w, entry, mask) ==
    _notify(_notify(_fsync(w, entry, TRUE), entry.parent, mask, entry.basename, 0),
            entry.node, mask, entry.basename, 0)

\* FileSystem.closeSync
closeSync(w0, f, fd) ==
    Try(_file(w0, f, fd, "", "", {}), LAMBDA e :
    Let(e.w.fsys[f].openFiles[fd], LAMBDA entry :
    Let([e.w EXCEPT !.fsys[f].openFiles = MapDel(@, fd)], LAMBDA w1 :
    IF isInotifyDescription(entry) THEN Ok(closeDetach(w1, fd, entry.watches), 0)
    ELSE Ok(closeFile(w1, entry,
                      IF isWritable(entry) THEN {"IN_CLOSE_WRITE"} ELSE {"IN_CLOSE_NOWRITE"}),
            0))))

\* Buffer.copy(target, targetStart, sourceStart, sourceEnd) read as the bytes it
\* takes from the source.
copied(bytes, sourceStart, sourceEnd) ==
    IF sourceStart >= Len(bytes) THEN <<>>
    ELSE SubSeq(bytes, sourceStart + 1, IF sourceEnd < Len(bytes) THEN sourceEnd ELSE Len(bytes))

\* if (position !== -1) entry.offset = position
seek(w, f, fd, position) ==
    IF position # -1 THEN [w EXCEPT !.fsys[f].openFiles[fd].offset = position] ELSE w

\* readSync: if (!entry.buffer) entry.buffer = this._getBuffer(node)
readBuffer(w, f, fd) ==
    IF w.fsys[f].openFiles[fd].buffer = 0
    THEN Let(_getBuffer(w, f, w.fsys[f].openFiles[fd].node), LAMBDA b :
         [b.w EXCEPT !.fsys[f].openFiles[fd].buffer = b.val])
    ELSE w

\* readSync: the copy out of entry.buffer and the notifications
readCopy(w, f, entry, fd, bytes) ==
    Ok(_notify(_notify([w EXCEPT !.fsys[f].openFiles[fd].offset = @ + Len(bytes)],
                       entry.parent, {"IN_ACCESS"}, entry.basename, 0),
               entry.node, {"IN_ACCESS"}, entry.basename, 0),
       bytes)

\* FileSystem.readSync(fd, buffer, 0, length, position): val is the bytes copied
\* into buffer (bytesRead is their number).
readSync(w0, f, fd, length, position) ==
    IF length < 0 \/ position < -1 THEN Throw(w0, "EINVAL")
    ELSE IF length = 0 THEN Ok(w0, <<>>)
    ELSE
    Try(_file(w0, f, fd, "open", "file", R_OK), LAMBDA e :
    Let(readBuffer(seek(e.w, f, fd, position), f, fd), LAMBDA w1 :
    Let(w1.fsys[f].openFiles[fd], LAMBDA entry :
    readCopy(w1, f, entry, fd,
             copied(w1.buf[entry.buffer], entry.offset, entry.offset + length)))))

\* resizeBuffer(buffer, size) on the Buffer handle b: the same Buffer when the size
\* does not change, else a fresh one, zero-filled past the copied bytes.
resizeBuffer(w, b, size) ==
    IF Len(w.buf[b]) = size THEN Ok(w, b)
    ELSE allocBuffer(w, [i \in 1..size |-> IF i <= Len(w.buf[b]) THEN w.buf[b][i] ELSE 0])

\* source.copy(target, targetStart) into the Buffer b, in place.
copyInto(w, b, targetStart, data) ==
    [w EXCEPT !.buf[b] = [i \in 1..Len(@) |->
                            IF i > targetStart /\ i <= targetStart + Len(data)
                            THEN data[i - targetStart] ELSE @[i]]]

\* writeSync: if we haven't yet started writing, get a copy of the storage buffer
writeBuffer(w, f, fd) ==
    IF w.fsys[f].openFiles[fd].buffer = 0
    THEN Let(_getBuffer(w, f, w.fsys[f].openFiles[fd].node), LAMBDA g :
         Let(allocBuffer(g.w, g.w.buf[g.val]), LAMBDA a :
         [a.w EXCEPT !.fsys[f].openFiles[fd].buffer = a.val]))
    ELSE w

\* writeSync: if we are writing to a point outside of the size of the buffer, resize it
writeResize(w, f, fd, length) ==
    IF w.fsys[f].openFiles[fd].offset >= Len(w.buf[w.fsys[f].openFiles[fd].buffer]) - length
    THEN Let(resizeBuffer(w, w.fsys[f].openFiles[fd].buffer,
                          w.fsys[f].openFiles[fd].offset + length), LAMBDA r :
         [r.w EXCEPT !.fsys[f].openFiles[fd].buffer = r.val])
    ELSE w

\* writeSync: the copy into entry.buffer; entry.offset += bytesWritten
writeCopy(w, f, fd, data) ==
    [copyInto(w, w.fsys[f].openFiles[fd].buffer, w.fsys[f].openFiles[fd].offset, data)
        EXCEPT !.fsys[f].openFiles[fd].offset = @ + Len(data)]

\* FileSystem.writeSync(fd, data, 0, data.byteLength, position): val is bytesWritten.
writeSync(w0, f, fd, data, position) ==
    IF position < -1 THEN Throw(w0, "EINVAL")
    ELSE IF Len(data) = 0 THEN Ok(w0, 0)
    ELSE
    Try(_file(w0, f, fd, "open", "file", W_OK), LAMBDA e :
    Let(writeCopy(writeResize(writeBuffer(seek(e.w, f, fd, position), f, fd),
                              f, fd, Len(data)),
                  f, fd, data),
        LAMBDA w1 :
    IF "O_SYNC" \in w1.fsys[f].openFiles[fd].flags
    THEN Ok(_fsync(w1, w1.fsys[f].openFiles[fd], TRUE), Len(data))
    ELSE Ok(w1, Len(data))))

\* FileSystem._resize(node, node, size): the entry resized is the inode itself.
_resize(w, f, h, size) ==
    Let(_getBuffer(w, f, h), LAMBDA g :
    IF Len(g.w.buf[g.val]) # size
    THEN Let(allocBuffer(g.w, [i \in 1..size |->
                                 IF i <= Len(g.w.buf[g.val]) THEN g.w.buf[g.val][i] ELSE 0]),
             LAMBDA a :
         [a.w EXCEPT !.inode[h].buffer = a.val])
    ELSE g.w)

\* A _truncate that notifies the node before the parent.
_truncateNodeFirst(w, f, parent, node, name, length) ==
    IF ~isFileInode(w, node) THEN Throw(w, "ENOENT")
    ELSE IF isReadonly(w, f) THEN Throw(w, "EROFS")
    ELSE
    Let(_getSize(w, f, node), LAMBDA s :
    Let(IF s.val # length THEN _resize(s.w, f, node, length) ELSE s.w, LAMBDA w1 :
    Ok(_notify(_notify(time(w1, node, {"mtimeMs"}), node, {"IN_MODIFY"}, name, 0),
               parent, {"IN_MODIFY"}, name, 0),
       0)))

\* FileSystem._truncate(syscall, entry, length) for entry = (parent, node, name)
_truncate(w, f, parent, node, name, length) ==
    IF ~isFileInode(w, node) THEN Throw(w, "ENOENT")
    ELSE IF isReadonly(w, f) THEN Throw(w, "EROFS")
    ELSE
    Let(_getSize(w, f, node), LAMBDA s :
    Let(IF s.val # length THEN _resize(s.w, f, node, length) ELSE s.w, LAMBDA w1 :
    Ok(_notify(_notify(time(w1, node, {"mtimeMs"}), parent, {"IN_MODIFY"}, name, 0),
               node, {"IN_MODIFY"}, name, 0),
       0)))

\* FileSystem.truncateSync
truncateSync(w0, f, path0, length) ==
    Try(_find(w0, f, _resolve(w0, f, path0)), LAMBDA e :
    IF ~e.val.found THEN Throw(e.w, "ENOENT")
    ELSE _truncate(e.w, f, e.val.parent, e.val.node, e.val.basename, length))

\* FileSystem.ftruncateSync
ftruncateSync(w0, f, fd, length) ==
    Try(_file(w0, f, fd, "open", "file", W_OK), LAMBDA e :
    Let(e.w.fsys[f].openFiles[fd], LAMBDA entry :
    _truncate(e.w, f, entry.parent, entry.node, entry.basename, length)))

\* FileSystem._chmod(syscall, entry, mode) for entry = (parent, node, name); the
\* file type is held apart from the permission bits.
_chmod(w, f, parent, node, name, mode) ==
    IF w.fsys[f].uid # 0 /\ w.fsys[f].uid # w.inode[node].uid THEN Throw(w, "EPERM")
    ELSE IF isReadonly(w, f) THEN Throw(w, "EROFS")
    ELSE
    Let(time([w EXCEPT !.inode[node].mode = mode], node, {"ctimeMs"}), LAMBDA w1 :
    Ok(_notify(_notify(w1, parent, {"IN_ATTRIB"}, name, 0), node, {"IN_ATTRIB"}, name, 0),
       0))

\* FileSystem.chmodSync
chmodSync(w0, f, path0, mode) ==
    Try(_find(w0, f, _resolve(w0, f, path0)), LAMBDA e :
    IF ~e.val.found THEN Throw(e.w, "ENOENT")
    ELSE _chmod(e.w, f, e.val.parent, e.val.node, e.val.basename, mode))

\* FileSystem._chown(syscall, entry, uid, gid) for entry = (parent, node, name);
\* -1 stands for an id that is left as it is.
_chown(w, f, parent, node, name, uid0, gid0) ==
    Let(IF uid0 = w.inode[node].uid THEN -1 ELSE uid0, LAMBDA uid :
    Let(IF gid0 = w.inode[node].gid THEN -1 ELSE gid0, LAMBDA gid :
    IF uid = -1 /\ gid = -1 THEN Ok(w, 0)
    ELSE IF uid # -1 /\ w.fsys[f].uid # 0 THEN Throw(w, "EPERM")
    ELSE IF gid # -1 /\ w.fsys[f].uid # 0 /\ w.fsys[f].uid # w.inode[node].uid
    THEN Throw(w, "EPERM")
    ELSE IF isReadonly(w, f) THEN Throw(w, "EROFS")
    ELSE
    Let(time([w EXCEPT !.inode[node].uid = IF uid # -1 THEN uid ELSE @,
                       !.inode[node].gid = IF gid # -1 THEN gid ELSE @,
                       !.inode[node].mode = @ \ {"S_ISGID", "S_ISUID"}],
             node, {"ctimeMs"}),
        LAMBDA w1 :
    Ok(_notify(_notify(w1, parent, {"IN_ATTRIB"}, name, 0), node, {"IN_ATTRIB"}, name, 0),
       0))))

\* FileSystem.chownSync
chownSync(w0, f, path0, uid, gid) ==
    Try(_find(w0, f, _resolve(w0, f, path0)), LAMBDA e :
    IF ~e.val.found THEN Throw(e.w, "ENOENT")
    ELSE _chown(e.w, f, e.val.parent, e.val.node, e.val.basename, uid, gid))

\* FileSystem._utimes(syscall, entry, atime, mtime) for entry = (parent, node, name)
\* and finite times: atimeMs and mtimeMs take the values given, ctimeMs the time.
_utimes(w, f, parent, node, name) ==
    IF isReadonly(w, f) THEN Throw(w, "EROFS")
    ELSE
    Let(time([w EXCEPT !.stamps = @ \cup {<<node, "atimeMs", "atime">>,
                                          <<node, "mtimeMs", "mtime">>}],
             node, {"ctimeMs"}),
        LAMBDA w1 :
    Ok(_notify(_notify(w1, parent, {"IN_ATTRIB"}, name, 0), node, {"IN_ATTRIB"}, name, 0),
       0))

\* FileSystem.utimesSync
utimesSync(w0, f, path0) ==
    Try(_find(w0, f, _resolve(w0, f, path0)), LAMBDA e :
    IF ~e.val.found THEN Throw(e.w, "ENOENT")
    ELSE _utimes(e.w, f, e.val.parent, e.val.node, e.val.basename))

RWX_OK == R_OK \cup W_OK \cup X_OK

\* FileSystem.accessSync
accessSync(w0, f, path0, mode) ==
    Let(_resolve(w0, f, path0), LAMBDA path :
    IF ~(mode \subseteq RWX_OK) THEN Throw(w0, "EINVAL")
    ELSE
    Try(_find(w0, f, path), LAMBDA e :
    IF ~e.val.found THEN Throw(e.w, "ENOENT")
    ELSE IF ~_access(e.w, f, e.val.node, mode) THEN Throw(e.w, "EACCES")
    ELSE Ok(e.w, 0)))

\* FileSystem.setuid
setuid(w0, f, value) ==
    IF isReadonly(w0, f) THEN Throw(w0, "EPERM")
    ELSE Ok([w0 EXCEPT !.fsys[f].uid = value], 0)

\* FileSystem.setgid
setgid(w0, f, value) ==
    IF isReadonly(w0, f) THEN Throw(w0, "EPERM")
    ELSE Ok([w0 EXCEPT !.fsys[f].gid = value], 0)

----------------------------------------------------------------------------
(* inotify descriptors *)

\* A fresh InotifyDescription record.
InotifyFile ==
    [kind |-> "inotify", path |-> EmptyPath, basename |-> "", parent |-> 0,
     node |-> 0, flags |-> {}, offset |-> 0, written |-> FALSE, buffer |-> 0,
     watches |-> {}, paths |-> EmptyMap]

\* FileSystem._inotify_init: val is the new fd.
_inotify_init(w0, f) ==
    Ok([w0 EXCEPT !.cnt.fd = @ + 1,
                  !.fsys[f].openFiles = MapSet(@, w0.cnt.fd + 1, InotifyFile)],
       w0.cnt.fd + 1)

\* node.watches.get(fd): the wd of the watch, 0 when there is none.
watchesGet(watches, fd) ==
    IF \E i \in 1..Len(watches) : watches[i].fd = fd
    THEN watches[CHOOSE i \in 1..Len(watches) : watches[i].fd = fd].wd
    ELSE 0

\* _inotify_add_watch: the watch is new
addWatch(w, f, fd, path, node, mask, wd) ==
    Ok([w EXCEPT !.cnt.wd = wd,
                 !.wdesc = Append(@, [wd |-> wd, watcher |-> fd, fs |-> f, path |-> path,
                                      node |-> node, mask |-> mask \cap IN_MASK]),
                 !.fsys[f].openFiles[fd].watches = @ \cup {wd},
                 !.fsys[f].openFiles[fd].paths = MapSet(@, path, wd),
                 !.inode[node].watches = Append(@, [fd |-> fd, wd |-> wd])],
       wd)

\* _inotify_add_watch: the inode already has a watch of this descriptor
updateWatch(w, old, mask) ==
    Ok([w EXCEPT !.wdesc[old].mask =
                    (IF "IN_MASK_ADD" \in mask THEN @ ELSE {}) \cup (mask \cap IN_MASK)],
       old)

\* FileSystem._inotify_add_watch: val is the wd.
_inotify_add_watch(w0, f, fd, path0, mask) ==
    Let(_resolve(w0, f, path0), LAMBDA path :
    Try(_file(w0, f, fd, "inotify", "", {}), LAMBDA e :
    Try(_walk(e.w, f, path, "IN_DONT_FOLLOW" \in mask), LAMBDA r :
    IF ~r.val.found THEN Throw(r.w, "ENOENT")
    ELSE IF "IN_ONLYDIR" \in mask /\ ~isDirectoryInode(r.w, r.val.node) THEN Throw(r.w, "ENOTDIR")
    ELSE IF watchesGet(r.w.inode[r.val.node].watches, fd) # 0
    THEN updateWatch(r.w, watchesGet(r.w.inode[r.val.node].watches, fd), mask)
    ELSE addWatch(r.w, f, fd, path, r.val.node, mask, r.w.cnt.wd + 1))))

\* An _inotify_rm_watch that removes the watch without IN_IGNORED.
_inotify_rm_watchSilent(w0, f, fd, wd) ==
    IF fd \notin DOMAIN w0.fsys[f].openFiles THEN Throw(w0, "EBADF")
    ELSE IF ~isInotifyDescription(w0.fsys[f].openFiles[fd]) THEN Throw(w0, "EBADF")
    ELSE IF wd \notin w0.fsys[f].openFiles[fd].watches THEN Throw(w0, "EBADF")
    ELSE Ok(_inotifyRemoveOneWatch(w0, wd, FALSE), 0)

\* FileSystem._inotify_rm_watch
_inotify_rm_watch(w0, f, fd, wd) ==
    IF fd \notin DOMAIN w0.fsys[f].openFiles THEN Throw(w0, "EBADF")
    ELSE IF ~isInotifyDescription(w0.fsys[f].openFiles[fd]) THEN Throw(w0, "EBADF")
    ELSE IF wd \notin w0.fsys[f].openFiles[fd].watches THEN Throw(w0, "EBADF")
    ELSE Ok(_inotifyRemoveOneWatch(w0, wd, TRUE), 0)

----------------------------------------------------------------------------
(* FSWatcher *)

\* The mask of FSWatcher.start
StartMask ==
    {"IN_CREATE", "IN_MODIFY", "IN_DELETE", "IN_DELETE_SELF",
     "IN_MOVED_FROM", "IN_MOVED_TO", "IN_MOVE_SELF"}

\* new FSWatcher(fs): val is the handle of the new object.
newFSWatcher(w0, f) ==
    Let(_inotify_init(w0, f), LAMBDA i :
    Ok([i.w EXCEPT !.watchers = Append(@, [fs |-> f, fd |-> i.val, wd |-> -1])],
       Len(w0.watchers) + 1))

\* FSWatcher.start(path) on the watcher k
start(w0, k, path) ==
    IF w0.watchers[k].fd = -1 THEN Ok(w0, 0)
    ELSE IF w0.watchers[k].wd # -1 THEN Ok(w0, 0)
    ELSE Try(_inotify_add_watch(w0, w0.watchers[k].fs, w0.watchers[k].fd, path, StartMask),
             LAMBDA a :
         Ok([a.w EXCEPT !.watchers[k].wd = a.val], 0))

\* FileSystem.watch(path): val is the handle of the watcher.
watch(w0, f, path) ==
    Try(newFSWatcher(w0, f), LAMBDA n :
    Try(start(n.w, n.val, path), LAMBDA s :
    Ok(s.w, n.val)))

\* FSWatcher.close() on the watcher k
close(w0, k) ==
    IF w0.watchers[k].fd = -1 THEN Ok(w0, 0)
    ELSE
    Try(IF w0.watchers[k].wd # -1
        THEN _inotify_rm_watch(w0, w0.watchers[k].fs, w0.watchers[k].fd, w0.watchers[k].wd)
        ELSE Ok(w0, 0),
        LAMBDA r :
    Try(closeSync(r.w, w0.watchers[k].fs, w0.watchers[k].fd), LAMBDA c :
    Ok([c.w EXCEPT !.watchers[k].fd = -1, !.watchers[k].wd = -1], 0)))

----------------------------------------------------------------------------
(* The FileSystem object *)

\* new FileSystem(ignoreCase) with the default options: uid 0, gid 0, umask 0o022,
\* no files and no cwd.
NewFileSystem ==
    [exists |-> TRUE, ignoreCase |-> FALSE, hasLinks |-> FALSE, links |-> SortedMap(FALSE),
     cwd |-> EmptyPath,
     hasDirStack |-> FALSE, dirStack |-> <<>>, frozen |-> FALSE, shadowRoot |-> 0,
     uid |-> 0, gid |-> 0, umask |-> Umask022, openFiles |-> EmptyMap,
     watchedFiles |-> EmptyMap]

\* A FileSystem that has not been constructed yet.
NoFileSystem == [NewFileSystem EXCEPT !.exists = FALSE]

\* FileSystem.makeReadonly: Object.freeze(this)
makeReadonly(w0, f) == Ok([w0 EXCEPT !.fsys[f].frozen = TRUE], 0)

\* FileSystem.shadow(ignoreCase): the new file system is constructed at index g.
shadowWith(w0, f, g, ignoreCase) ==
    IF ~isReadonly(w0, f) THEN Throw(w0, "Cannot shadow a mutable file system.")
    ELSE IF ignoreCase /\ ~w0.fsys[f].ignoreCase
    THEN Throw(w0, "Cannot create a case-insensitive file system from a case-sensitive one.")
    ELSE Ok([w0 EXCEPT !.fsys[g] = [NewFileSystem EXCEPT !.ignoreCase = ignoreCase,
                                                         !.links = SortedMap(ignoreCase),
                                                         !.uid = w0.fsys[f].uid,
                                                         !.gid = w0.fsys[f].gid,
                                                         !.umask = w0.fsys[f].umask,
                                                         !.shadowRoot = f,
                                                         !.cwd = w0.fsys[f].cwd]], g)

\* shadow(): ignoreCase defaults to this.ignoreCase
shadow(w0, f, g) == shadowWith(w0, f, g, w0.fsys[f].ignoreCase)

\* FileSystem.chdir
chdir(w0, f, path0) ==
    IF isReadonly(w0, f) THEN Throw(w0, "EPERM")
    ELSE
    Let(_resolve(w0, f, path0), LAMBDA path :
    Try(_find(w0, f, path), LAMBDA e :
    IF ~e.val.found THEN Throw(e.w, "ENOENT")
    ELSE IF ~isDirectoryInode(e.w, e.val.node) THEN Throw(e.w, "ENOTDIR")
    ELSE IF e.w.fsys[f].cwd # path THEN Ok([e.w EXCEPT !.fsys[f].cwd = path], 0)
    ELSE Ok(e.w, 0)))

\* pushd: if (this._cwd) { if (!this._dirStack) this._dirStack = []; push(this._cwd) }
pushCwd(w, f) ==
    IF w.fsys[f].cwd # EmptyPath
    THEN [w EXCEPT !.fsys[f].hasDirStack = TRUE,
                   !.fsys[f].dirStack = Append(@, w.fsys[f].cwd)]
    ELSE w

\* FileSystem.pushd(path)
pushd(w0, f, path0) ==
    IF isReadonly(w0, f) THEN Throw(w0, "EPERM")
    ELSE
    Let(_resolve(w0, f, path0), LAMBDA path :
    IF path # w0.fsys[f].cwd THEN chdir(pushCwd(w0, f), f, path)
    ELSE Ok(pushCwd(w0, f), 0))

\* FileSystem.popd
popd(w0, f) ==
    IF isReadonly(w0, f) THEN Throw(w0, "EPERM")
    ELSE IF w0.fsys[f].hasDirStack /\ Len(w0.fsys[f].dirStack) > 0
    THEN chdir([w0 EXCEPT !.fsys[f].dirStack = SubSeq(@, 1, Len(@) - 1)], f,
               w0.fsys[f].dirStack[Len(w0.fsys[f].dirStack)])
    ELSE Ok(w0, 0)

----------------------------------------------------------------------------
(* Reading operations, used to observe a file system *)

\* string.length of a path string whose segments are one character long, but
\* for "..".
length(path) == Len(path) + Cardinality({i \in DOMAIN path : path[i] = ".."})

\* _stat: the size field
statSize(w, f, node) ==
    IF isFileInode(w, node) THEN _getSize(w, f, node)
    ELSE IF isSymlinkInode(w, node) THEN Ok(w, length(w.inode[node].symlink))
    ELSE Ok(w, 0)

\* FileSystem._stat: the fields of the Stats record that the model holds.
_stat(w, f, node) ==
    Let(statSize(w, f, node), LAMBDA s :
    Ok(s.w, [ino |-> w.inode[node].ino, type |-> w.inode[node].type,
             mode |-> w.inode[node].mode, nlink |-> w.inode[node].nlink,
             uid |-> w.inode[node].uid, gid |-> w.inode[node].gid, size |-> s.val]))

\* FileSystem.statSync
statSync(w0, f, path0) ==
    Try(_find(w0, f, _resolve(w0, f, path0)), LAMBDA e :
    IF ~e.val.found THEN Throw(e.w, "ENOENT")
    ELSE _stat(e.w, f, e.val.node))

\* FileSystem.lstatSync
lstatSync(w0, f, path0) ==
    Try(_lfind(w0, f, _resolve(w0, f, path0)), LAMBDA e :
    IF ~e.val.found THEN Throw(e.w, "ENOENT")
    ELSE _stat(e.w, f, e.val.node))

\* FileSystem.fstatSync
fstatSync(w0, f, fd) ==
    Try(_file(w0, f, fd, "open", "", {}), LAMBDA e :
    _stat(e.w, f, e.w.fsys[f].openFiles[fd].node))

\* FileSystem.readdirSync: val is Array.from(links.keys()), the names in map order.
readdirSync(w0, f, path0) ==
    Try(_find(w0, f, _resolve(w0, f, path0)), LAMBDA e :
    IF ~e.val.found THEN Throw(e.w, "ENOENT")
    ELSE IF ~isDirectoryInode(e.w, e.val.node) THEN Throw(e.w, "ENOTDIR")
    ELSE IF ~_access(e.w, f, e.val.node, R_OK) THEN Throw(e.w, "EACCES")
    ELSE Let(_getLinks(e.w, f, e.val.node), LAMBDA g : Ok(g.w, g.val.keys)))

\* The read loop of readFileSync: reads at position offset until size bytes are
\* read or a read returns nothing.
RECURSIVE readLoop(_, _, _, _, _, _)
readLoop(w, f, fd, size, offset, acc) ==
    IF ~(offset < size) THEN Ok(w, acc)
    ELSE Try(readSync(w, f, fd, size - offset, offset), LAMBDA r :
         IF Len(r.val) = 0 THEN Ok(r.w, acc)
         ELSE readLoop(r.w, f, fd, size, offset + Len(r.val), acc \o r.val))

\* try { ... } finally { this.closeSync(fd) }: r is the outcome of the body
finallyClose(r, f, fd) ==
    Let(closeSync(r.w, f, fd), LAMBDA c :
    IF c.err # "OK" THEN c
    ELSE IF r.err # "OK" THEN Throw(c.w, r.err)
    ELSE Ok(c.w, r.val))

\* FileSystem.readFileSync(path) with the default flag "r": val is the bytes.
readFileSync(w0, f, path0) ==
    Try(openSync(w0, f, path0, O_RDONLY, Mode666), LAMBDA o :
    Try(fstatSync(o.w, f, o.val), LAMBDA st :
    finallyClose(readLoop(st.w, f, o.val, st.val.size, 0, <<>>), f, o.val)))

\* The write loop of writeFileSync.
RECURSIVE writeLoop(_, _, _, _, _, _)
writeLoop(w, f, fd, data, offset, append) ==
    IF ~(offset < Len(data)) THEN Ok(w, 0)
    ELSE Try(writeSync(w, f, fd, SubSeq(data, offset + 1, Len(data)),
                       IF append THEN -1 ELSE offset), LAMBDA r :
         writeLoop(r.w, f, fd, data, offset + r.val, append))

\* FileSystem.writeFileSync(path, data, { flag })
writeFileSync(w0, f, path0, data, flags) ==
    Try(openSync(w0, f, path0, flags, Mode666), LAMBDA o :
    finallyClose(writeLoop(o.w, f, o.val, data, 0, "O_APPEND" \in flags), f, o.val))

\* FileSystem.writeFileSync(fd, data, { flag }): the descriptor is the caller's, it
\* is neither opened nor closed.
writeFileSyncFd(w0, f, fd, data, flags) == writeLoop(w0, f, fd, data, 0, "O_APPEND" \in flags)

\* parseFlags("w")
FlagW == {"O_WRONLY", "O_TRUNC", "O_CREAT"}

\* parseFlags("a")
FlagA == {"O_WRONLY", "O_APPEND", "O_CREAT"}

\* FileSystem.appendFileSync(path, data)
appendFileSync(w0, f, path0, data) == writeFileSync(w0, f, path0, data, FlagA)

\* FileSystem.appendFileSync(fd, data)
appendFileSyncFd(w0, f, fd, data) == writeFileSyncFd(w0, f, fd, data, FlagA)

----------------------------------------------------------------------------
----------------------------------------------------------------------------
(* Initial states *)

\* The bytes of "hi".
Hi == <<1, 2>>

PathA == <<"/", "a">>
PathF == <<"/", "a", "f">>
PathG == <<"/", "a", "g">>
PathH == <<"/", "a", "h">>
PathB == <<"/", "b">>
RelF == <<"", "f">>

----------------------------------------------------------------------------
(* Polling watchers: watchFile, unwatchFile and the timers they use *)

\* new Stats(): what a watcher holds for a path that names nothing.
NoStats ==
    [ino |-> 0, type |-> "", mode |-> {}, nlink |-> 0, uid |-> 0, gid |-> 0, size |-> 0]

\* watchedFiles.get(path) finds the key that the comparer of the file system
\* holds equal to path; without one, path itself is the key that set would add.
watchedFilesKey(w, f, path) ==
    Let({k \in DOMAIN w.fsys[f].watchedFiles :
            compareComponents(reduce(k), reduce(path), w.fsys[f].ignoreCase, 1) = 0},
        LAMBDA found :
    IF found = {} THEN path ELSE CHOOSE k \in found : TRUE)

\* timers.setInterval(callback, interval) for the callback of the WatchedFile
\* file: the handle it returns is the place of the interval among those made.
setInterval(intervals, file) == Append(intervals, [file |-> file, state |-> "active"])

\* timers.clearInterval(handle): the interval makes no new tick; scheduled says
\* whether a tick of it that was already due is still to be delivered.
clearInterval(intervals, handle, scheduled) ==
    [intervals EXCEPT ![handle].state = IF @ = "active" /\ scheduled THEN "pending" ELSE "cleared"]

\* callback(current, previous) of the WatchedFile file
hear(w, file, current, previous) ==
    [w EXCEPT !.poll.heard = Append(@, [file |-> file, listener |-> w.poll.files[file].listener,
                                        current |-> current, previous |-> previous])]

\* entry ? this._stat("stat", entry, path) : new Stats()
statOrNone(e, f) == IF e.val.found THEN _stat(e.w, f, e.val.node) ELSE Ok(e.w, NoStats)

\* FileSystem.watchFile(path, listener)
watchFile(w0, f, path0, listener) ==
    Let(_resolve(w0, f, path0), LAMBDA path :
    Try(_find(w0, f, path), LAMBDA e :
    Let(watchedFilesKey(e.w, f, path), LAMBDA key :
    Let(Len(e.w.poll.files) + 1, LAMBDA file :
    Let(statOrNone(e, f), LAMBDA previous :
    Let([previous.w EXCEPT
            !.poll.intervals = setInterval(@, file),
            !.poll.files = Append(@, [fs |-> f, path |-> path,
                                      handle |-> Len(e.w.poll.intervals) + 1,
                                      previous |-> previous.val, listener |-> listener]),
            !.fsys[f].watchedFiles =
                MapSet(@, key, (IF key \in DOMAIN @ THEN @[key] ELSE <<>>) \o <<file>>)],
        LAMBDA w1 :
    IF ~e.val.found THEN Ok(hear(w1, file, previous.val, previous.val), 0)
    ELSE Ok(w1, 0)))))))

\* _onWatchInterval once the handle is known to be set
onWatchIntervalPoll(w0, file) ==
    Let(w0.poll.files[file], LAMBDA watchedFile :
    Try(_find(w0, watchedFile.fs, watchedFile.path), LAMBDA e :
    Let(statOrNone(e, watchedFile.fs), LAMBDA current :
    IF current.val # watchedFile.previous
    THEN Ok(hear([current.w EXCEPT !.poll.files[file].previous = current.val],
                 file, current.val, watchedFile.previous), 0)
    ELSE Ok(current.w, 0))))

\* An _onWatchInterval that does not look at the handle.
_onWatchIntervalCleared(w0, file) == onWatchIntervalPoll(w0, file)

\* FileSystem._onWatchInterval(watchedFile); handle 0 is undefined
_onWatchInterval(w0, file) ==
    IF w0.poll.files[file].handle = 0 THEN Ok(w0, 0)
    ELSE onWatchIntervalPoll(w0, file)

\* The loop of unwatchFile over the set, for the WatchedFiles gone, those that
\* the callback selects.
unwatchEach(w, gone, scheduled) ==
    [w EXCEPT !.poll.intervals =
                  [h \in DOMAIN @ |->
                      IF \E i \in DOMAIN gone : w.poll.files[gone[i]].handle = h
                      THEN clearInterval(@, h, scheduled)[h] ELSE @[h]],
              !.poll.files =
                  [file \in DOMAIN @ |->
                      IF \E i \in DOMAIN gone : gone[i] = file
                      THEN [@[file] EXCEPT !.handle = 0] ELSE @[file]]]

\* FileSystem.unwatchFile(path, callback?); callback 0 is undefined.  A map that
\* was never made is the empty map.
unwatchFile(w0, f, path0, callback, scheduled) ==
    Let(_resolve(w0, f, path0), LAMBDA path :
    Let(watchedFilesKey(w0, f, path), LAMBDA key :
    IF key \notin DOMAIN w0.fsys[f].watchedFiles THEN Ok(w0, 0)
    ELSE
    Let(w0.fsys[f].watchedFiles[key], LAMBDA watchedFileSet :
    Let(SelectSeq(watchedFileSet,
                  LAMBDA file : callback = 0 \/ w0.poll.files[file].listener = callback),
        LAMBDA gone :
    Let(SelectSeq(watchedFileSet,
                  LAMBDA file : ~(callback = 0 \/ w0.poll.files[file].listener = callback)),
        LAMBDA kept :
    Let(unwatchEach(w0, gone, scheduled), LAMBDA w1 :
    IF kept = <<>> THEN Ok([w1 EXCEPT !.fsys[f].watchedFiles = MapDel(@, key)], 0)
    ELSE Ok([w1 EXCEPT !.fsys[f].watchedFiles = MapSet(@, key, kept)], 0)))))))

\* Before any FileSystem is used: fs 1 is new FileSystem(false), fs 2 is not
\* constructed.
World0 ==
    [inode |-> <<>>, buf |-> <<>>,
     fsys |-> [i \in {1, 2} |-> IF i = 1 THEN NewFileSystem ELSE NoFileSystem],
     wdesc |-> <<>>,
     cnt |-> [ino |-> 0, fd |-> 0, wd |-> 0, cookie |-> 0],
     events |-> <<>>,
     calls |-> <<>>,
     poll |-> [files |-> <<>>, intervals |-> <<>>, heard |-> <<>>],
     stamps |-> {},
     watchers |-> <<>>]

\* After mkdirSync("/"); mkdirSync("/a"); writeFileSync("/a/f", "hi")
WorldTree ==
    [writeFileSync(mkdirSync(mkdirSync(World0, 1, RootPath, Mode777).w, 1, PathA, Mode777).w,
                   1, PathF, Hi, FlagW).w
        EXCEPT !.events = <<>>]

NoOp == [op |-> "none", async |-> FALSE, f |-> 0, a |-> <<>>, b |-> <<>>, fd |-> 0,
         flags |-> {}, mode |-> {}, data |-> <<>>, len |-> 0, pos |-> 0, listener |-> 0,
         scheduled |-> FALSE, err |-> "OK", val |-> 0]

InitFrom(w) ==
    /\ inode = w.inode
    /\ buf = w.buf
    /\ fsys = w.fsys
    /\ wdesc = w.wdesc
    /\ cnt = w.cnt
    /\ events = w.events
    /\ calls = w.calls
    /\ poll = w.poll
    /\ stamps = {}
    /\ watchers = w.watchers
    /\ ticks = <<>>
    /\ invoked = <<>>
    /\ last = NoOp

----------------------------------------------------------------------------
(* Actions: one per operation *)

MaxCookie == 2      \* renames performed
MaxDirs == 2        \* directories on the directory stack

\* The world an operation starts from: the event log and the log of listener
\* calls are those of one operation.
Start == [World EXCEPT !.events = <<>>, !.poll.heard = <<>>, !.stamps = {}]

\* The operation whose outcome is r becomes the step, within the bounds.
Apply(r, rec) ==
    /\ Len(r.w.inode) <= MaxNodes
    /\ Len(r.w.buf) <= MaxBufs
    /\ r.w.cnt.fd <= MaxFds
    /\ r.w.cnt.wd <= MaxWds
    /\ r.w.cnt.cookie <= MaxCookie
    /\ Len(r.w.poll.files) <= MaxPolls
    /\ inode' = r.w.inode
    /\ buf' = r.w.buf
    /\ fsys' = r.w.fsys
    /\ wdesc' = r.w.wdesc
    /\ cnt' = r.w.cnt
    /\ events' = r.w.events
    /\ calls' = r.w.calls
    /\ poll' = r.w.poll
    /\ stamps' = r.w.stamps
    /\ watchers' = r.w.watchers
    /\ last' = [rec EXCEPT !.err = r.err, !.val = r.val]

\* A synchronous operation: no callback is queued or invoked.
Step(r, rec) == Apply(r, rec) /\ UNCHANGED <<ticks, invoked>>

Exists(f) == fsys[f].exists

MkdirSync(f, path) ==
    /\ Exists(f)
    /\ Step(mkdirSync(Start, f, path, Mode777),
            [NoOp EXCEPT !.op = "mkdirSync", !.f = f, !.a = path])

RmdirSync(f, path) ==
    /\ Exists(f)
    /\ Step(rmdirSync(Start, f, path), [NoOp EXCEPT !.op = "rmdirSync", !.f = f, !.a = path])

LinkSync(f, oldpath, newpath) ==
    /\ Exists(f)
    /\ Step(linkSync(Start, f, oldpath, newpath),
            [NoOp EXCEPT !.op = "linkSync", !.f = f, !.a = oldpath, !.b = newpath])

UnlinkSync(f, path) ==
    /\ Exists(f)
    /\ Step(unlinkSync(Start, f, path), [NoOp EXCEPT !.op = "unlinkSync", !.f = f, !.a = path])

RenameSync(f, oldpath, newpath) ==
    /\ Exists(f)
    /\ Step(renameSync(Start, f, oldpath, newpath),
            [NoOp EXCEPT !.op = "renameSync", !.f = f, !.a = oldpath, !.b = newpath])

SymlinkSync(f, target, linkpath) ==
    /\ Exists(f)
    /\ Step(symlinkSync(Start, f, target, linkpath),
            [NoOp EXCEPT !.op = "symlinkSync", !.f = f, !.a = target, !.b = linkpath])

OpenSync(f, path, flags, mode) ==
    /\ Exists(f)
    /\ Step(openSync(Start, f, path, flags, mode),
            [NoOp EXCEPT !.op = "openSync", !.f = f, !.a = path, !.flags = flags, !.mode = mode])

CloseSync(f, fd) ==
    /\ Exists(f)
    /\ Step(closeSync(Start, f, fd), [NoOp EXCEPT !.op = "closeSync", !.f = f, !.fd = fd])

ReadSync(f, fd, len, position) ==
    /\ Exists(f)
    /\ Step(readSync(Start, f, fd, len, position),
            [NoOp EXCEPT !.op = "readSync", !.f = f, !.fd = fd, !.len = len,
                         !.pos = position])

WriteSync(f, fd, data, position) ==
    /\ Exists(f)
    /\ Step(writeSync(Start, f, fd, data, position),
            [NoOp EXCEPT !.op = "writeSync", !.f = f, !.fd = fd, !.data = data,
                         !.pos = position])

FstatSync(f, fd) ==
    /\ Exists(f)
    /\ Step(fstatSync(Start, f, fd), [NoOp EXCEPT !.op = "fstatSync", !.f = f, !.fd = fd])

FsyncSync(f, fd) ==
    /\ Exists(f)
    /\ Step(fsyncSync(Start, f, fd), [NoOp EXCEPT !.op = "fsyncSync", !.f = f, !.fd = fd])

FdatasyncSync(f, fd) ==
    /\ Exists(f)
    /\ Step(fdatasyncSync(Start, f, fd),
            [NoOp EXCEPT !.op = "fdatasyncSync", !.f = f, !.fd = fd])

TruncateSync(f, path, len) ==
    /\ Exists(f)
    /\ Step(truncateSync(Start, f, path, len),
            [NoOp EXCEPT !.op = "truncateSync", !.f = f, !.a = path, !.pos = len])

FtruncateSync(f, fd, len) ==
    /\ Exists(f)
    /\ Step(ftruncateSync(Start, f, fd, len),
            [NoOp EXCEPT !.op = "ftruncateSync", !.f = f, !.fd = fd, !.pos = len])

ChmodSync(f, path, mode) ==
    /\ Exists(f)
    /\ Step(chmodSync(Start, f, path, mode),
            [NoOp EXCEPT !.op = "chmodSync", !.f = f, !.a = path, !.mode = mode])

ChownSync(f, path, uid, gid) ==
    /\ Exists(f)
    /\ Step(chownSync(Start, f, path, uid, gid),
            [NoOp EXCEPT !.op = "chownSync", !.f = f, !.a = path, !.pos = uid, !.len = gid])

UtimesSync(f, path) ==
    /\ Exists(f)
    /\ Step(utimesSync(Start, f, path), [NoOp EXCEPT !.op = "utimesSync", !.f = f, !.a = path])

MountSync(f, source, target) ==
    /\ Exists(f)
    /\ Step(mountSync(Start, f, source, target, Mode777),
            [NoOp EXCEPT !.op = "mountSync", !.f = f, !.a = source, !.b = target])

WatchFile(f, path, listener) ==
    /\ Exists(f)
    /\ Step(watchFile(Start, f, path, listener),
            [NoOp EXCEPT !.op = "watchFile", !.f = f, !.a = path, !.listener = listener])

\* unwatchFile; the timers choose whether a tick of a cleared interval was due.
UnwatchFile(f, path, callback, scheduled) ==
    /\ Exists(f)
    /\ Step(unwatchFile(Start, f, path, callback, scheduled),
            [NoOp EXCEPT !.op = "unwatchFile", !.f = f, !.a = path, !.listener = callback,
                         !.scheduled = scheduled])

\* The timers deliver a tick of interval handle: one of an interval that is
\* active, or the one that was due when the interval was cleared.
Interval(handle) ==
    /\ handle \in DOMAIN poll.intervals
    /\ poll.intervals[handle].state \in {"active", "pending"}
    /\ Let(_onWatchInterval(Start, poll.intervals[handle].file), LAMBDA r :
           Step([r EXCEPT !.w.poll.intervals[handle].state =
                              IF @ = "pending" THEN "cleared" ELSE @],
                [NoOp EXCEPT !.op = "interval", !.pos = handle]))

ReadlinkSync(f, path) ==
    /\ Exists(f)
    /\ Step(readlinkSync(Start, f, path),
            [NoOp EXCEPT !.op = "readlinkSync", !.f = f, !.a = path])

ReaddirSync(f, path) ==
    /\ Exists(f)
    /\ Step(readdirSync(Start, f, path),
            [NoOp EXCEPT !.op = "readdirSync", !.f = f, !.a = path])

ReadFileSync(f, path) ==
    /\ Exists(f)
    /\ Step(readFileSync(Start, f, path),
            [NoOp EXCEPT !.op = "readFileSync", !.f = f, !.a = path])

AccessSync(f, path, mode) ==
    /\ Exists(f)
    /\ Step(accessSync(Start, f, path, mode),
            [NoOp EXCEPT !.op = "accessSync", !.f = f, !.a = path, !.mode = mode])

Setuid(f, value) ==
    /\ Exists(f)
    /\ Step(setuid(Start, f, value), [NoOp EXCEPT !.op = "setuid", !.f = f, !.pos = value])

Setgid(f, value) ==
    /\ Exists(f)
    /\ Step(setgid(Start, f, value), [NoOp EXCEPT !.op = "setgid", !.f = f, !.pos = value])

AppendFileSync(f, path, data) ==
    /\ Exists(f)
    /\ Step(appendFileSync(Start, f, path, data),
            [NoOp EXCEPT !.op = "appendFileSync", !.f = f, !.a = path, !.data = data])

AppendFileSyncFd(f, fd, data) ==
    /\ Exists(f)
    /\ Step(appendFileSyncFd(Start, f, fd, data),
            [NoOp EXCEPT !.op = "appendFileSync", !.f = f, !.fd = fd, !.data = data])

MakeReadonly(f) ==
    /\ Exists(f)
    /\ ~fsys[f].frozen
    /\ Step(makeReadonly(Start, f), [NoOp EXCEPT !.op = "makeReadonly", !.f = f])

Shadow(f, g) ==
    /\ Exists(f)
    /\ ~Exists(g)
    /\ Step(shadow(Start, f, g), [NoOp EXCEPT !.op = "shadow", !.f = f])

Pushd(f, path) ==
    /\ Exists(f)
    /\ Len(fsys[f].dirStack) < MaxDirs
    /\ Step(pushd(Start, f, path), [NoOp EXCEPT !.op = "pushd", !.f = f, !.a = path])

Popd(f) ==
    /\ Exists(f)
    /\ Step(popd(Start, f), [NoOp EXCEPT !.op = "popd", !.f = f])

InotifyInit(f) ==
    /\ Exists(f)
    /\ Step(_inotify_init(Start, f), [NoOp EXCEPT !.op = "inotify_init", !.f = f])

InotifyAddWatch(f, fd, path, mask) ==
    /\ Exists(f)
    /\ Step(_inotify_add_watch(Start, f, fd, path, mask),
            [NoOp EXCEPT !.op = "inotify_add_watch", !.f = f, !.fd = fd, !.a = path,
                         !.flags = mask])

InotifyRmWatch(f, fd, wd) ==
    /\ Exists(f)
    /\ Step(_inotify_rm_watch(Start, f, fd, wd),
            [NoOp EXCEPT !.op = "inotify_rm_watch", !.f = f, !.fd = fd, !.pos = wd])

Watch(f, path) ==
    /\ Exists(f)
    /\ Step(watch(Start, f, path), [NoOp EXCEPT !.op = "watch", !.f = f, !.a = path])

FSWatcherClose(k) ==
    /\ k \in 1..Len(watchers)
    /\ Step(close(Start, k), [NoOp EXCEPT !.op = "FSWatcher.close", !.pos = k])

StatSync(f, path) ==
    /\ Exists(f)
    /\ Step(statSync(Start, f, path), [NoOp EXCEPT !.op = "statSync", !.f = f, !.a = path])

LstatSync(f, path) ==
    /\ Exists(f)
    /\ Step(lstatSync(Start, f, path), [NoOp EXCEPT !.op = "lstatSync", !.f = f, !.a = path])

----------------------------------------------------------------------------
(* The callback-taking variants *)

MaxCalls == 3       \* callback-taking calls made

\* A queue to which the callback is added twice.
nextTickTwice(queue, callback) == Append(Append(queue, callback), callback)

\* process.nextTick(callback, ...args): the callback joins the queue of the next tick.
nextTick(queue, callback) == Append(queue, callback)

\* try { result = this.opSync(...); process.nextTick(callback, null, result); }
\* catch (e) { process.nextTick(callback, e); }
\* r is the outcome of the synchronous core; the callback is the id-th one given.
Async(r, rec) ==
    /\ Len(ticks) + Len(invoked) < MaxCalls
    /\ Apply(r, [rec EXCEPT !.async = TRUE])
    /\ ticks' = nextTick(ticks, [id |-> Len(ticks) + Len(invoked) + 1,
                                 err |-> r.err, val |-> r.val])
    /\ invoked' = invoked

Mkdir(f, path) ==
    /\ Exists(f)
    /\ Async(mkdirSync(Start, f, path, Mode777),
             [NoOp EXCEPT !.op = "mkdirSync", !.f = f, !.a = path])

Rmdir(f, path) ==
    /\ Exists(f)
    /\ Async(rmdirSync(Start, f, path), [NoOp EXCEPT !.op = "rmdirSync", !.f = f, !.a = path])

Unlink(f, path) ==
    /\ Exists(f)
    /\ Async(unlinkSync(Start, f, path),
             [NoOp EXCEPT !.op = "unlinkSync", !.f = f, !.a = path])

Rename(f, oldpath, newpath) ==
    /\ Exists(f)
    /\ Async(renameSync(Start, f, oldpath, newpath),
             [NoOp EXCEPT !.op = "renameSync", !.f = f, !.a = oldpath, !.b = newpath])

Open(f, path, flags, mode) ==
    /\ Exists(f)
    /\ Async(openSync(Start, f, path, flags, mode),
             [NoOp EXCEPT !.op = "openSync", !.f = f, !.a = path, !.flags = flags,
                          !.mode = mode])

Close(f, fd) ==
    /\ Exists(f)
    /\ Async(closeSync(Start, f, fd), [NoOp EXCEPT !.op = "closeSync", !.f = f, !.fd = fd])

Truncate(f, path, len) ==
    /\ Exists(f)
    /\ Async(truncateSync(Start, f, path, len),
             [NoOp EXCEPT !.op = "truncateSync", !.f = f, !.a = path, !.pos = len])

\* The event loop runs the next tick: the callback at the head of the queue is
\* invoked with its arguments.
Tick ==
    /\ ticks # <<>>
    /\ ticks' = Tail(ticks)
    /\ invoked' = Append(invoked, Head(ticks))
    /\ last' = [NoOp EXCEPT !.op = "callback", !.pos = Head(ticks).id]
    /\ UNCHANGED <<inode, buf, fsys, wdesc, cnt, events, calls, poll, stamps, watchers>>

----------------------------------------------------------------------------
(* Descriptors and file content: open, read, write, publish, close, unlink, freeze *)

Fds == 1..MaxFds

InitIO == InitFrom(WorldTree)

NextIO ==
    \/ \E flags \in {O_RDONLY, O_RDWR} : OpenSync(1, PathF, flags, Mode666)
    \/ \E fd \in Fds : CloseSync(1, fd)
    \/ \E fd \in Fds : ReadSync(1, fd, 1, 0)
    \/ \E fd \in Fds, position \in {0, 1} : WriteSync(1, fd, <<9>>, position)
    \/ \E fd \in Fds : FsyncSync(1, fd)
    \/ \E fd \in Fds : FdatasyncSync(1, fd)
    \/ UnlinkSync(1, PathF)
    \/ MakeReadonly(1)

SpecIO == InitIO /\ [][NextIO]_vars

MaxLen == 8         \* bytes asked of one read

\* The bytes a readSync of the whole file through descriptor fd returns.
ReadAll(w, f, fd) == readSync(w, f, fd, MaxLen, 0).val

\* The descriptors of fs f, other than fd, that are open on the inode fd is open on.
Others(f, fd) ==
    {B \in DOMAIN fsys[f].openFiles \ {fd} :
        /\ fsys[f].openFiles[B].kind = "open"
        /\ fsys[f].openFiles[B].node = fsys[f].openFiles[fd].node}

\* A step that is a successful writeSync through a descriptor opened without O_SYNC.
UnsyncedWrite ==
    /\ last'.op = "writeSync"
    /\ last'.err = "OK"
    /\ last'.fd \in DOMAIN fsys[1].openFiles
    /\ "O_SYNC" \notin fsys[1].openFiles[last'.fd].flags

\* C1 (copy-before-write visibility): a writeSync through a descriptor A opened
\* without O_SYNC leaves unchanged the bytes that readSync returns through every
\* other descriptor B open on the same inode; only A's fsyncSync, fdatasyncSync
\* or closeSync may change them.
C1_WriteInvisible ==
    [][UnsyncedWrite =>
          \A B \in Others(1, last'.fd) : ReadAll(World', 1, B) = ReadAll(World, 1, B)]_vars

----------------------------------------------------------------------------
(* A frozen file system and its shadow *)

\* After makeReadonly(); g = shadow(): fs 2 is the shadow of the frozen fs 1.
WorldShadow == shadow(makeReadonly(WorldTree, 1).w, 1, 2).w

InitShadow == InitFrom(WorldShadow)

NextShadow ==
    \/ \E flags \in {O_RDONLY, O_RDWR} : OpenSync(2, PathF, flags, Mode666)
    \/ \E fd \in Fds : ReadSync(2, fd, 1, 0)
    \/ \E fd \in Fds : WriteSync(2, fd, <<9>>, 0)
    \/ \E fd \in Fds : FsyncSync(2, fd)
    \/ \E fd \in Fds : CloseSync(2, fd)
    \/ UnlinkSync(2, PathF)
    \/ MkdirSync(2, PathB)

SpecShadow == InitShadow /\ [][NextShadow]_vars

\* What fs.readFileSync(p) gives: its bytes, or the error it throws.
ReadFile(w, f, p) ==
    Let(readFileSync(w, f, p), LAMBDA r :
    IF r.err = "OK" THEN [err |-> "OK", bytes |-> r.val] ELSE [err |-> r.err, bytes |-> <<>>])

\* C2 (shadow isolation): whatever is done through the shadow g = fs.shadow(),
\* fs.readFileSync(p) returns for every path p what it returned when the shadow
\* was made.
C2_ShadowIsolation ==
    \A p \in {PathA, PathF, PathG, PathB} : ReadFile(World, 1, p) = ReadFile(WorldShadow, 1, p)

----------------------------------------------------------------------------
(* A frozen file system *)

PathFH == <<"/", "a", "f", "h">>

\* After mkdirSync("/b"); makeReadonly()
WorldFrozen == makeReadonly(mkdirSync(WorldTree, 1, PathB, Mode777).w, 1).w

InitFrozen == InitFrom(WorldFrozen)

\* The access modes of open, each alone or with O_CREAT or O_TRUNC.
OpenFlags ==
    {acc \cup opt : acc \in {O_RDONLY, O_WRONLY, O_RDWR},
                    opt \in {{}, {"O_CREAT"}, {"O_TRUNC"}}}

NextFrozen ==
    \/ \E path \in {PathH, PathB} : MkdirSync(1, path)
    \/ \E path \in {PathA, PathB} : RmdirSync(1, path)
    \/ \E newpath \in {PathG, PathB} : LinkSync(1, PathF, newpath)
    \/ \E path \in {PathF, PathG} : UnlinkSync(1, path)
    \/ \E newpath \in {PathG, PathFH} : RenameSync(1, PathF, newpath)
    \/ \E linkpath \in {PathG, PathF} : SymlinkSync(1, formatPath(PathF), linkpath)
    \/ \E path \in {PathF, PathG} : TruncateSync(1, path, 1)
    \/ \E path \in {PathF, PathG}, flags \in OpenFlags : OpenSync(1, path, flags, Mode666)
    \/ \E fd \in Fds : CloseSync(1, fd)

SpecFrozen == InitFrozen /\ [][NextFrozen]_vars

\* The operation that the record rec names, applied to the world w.
Run(w, rec) ==
    CASE rec.op = "mkdirSync" -> mkdirSync(w, rec.f, rec.a, Mode777)
      [] rec.op = "rmdirSync" -> rmdirSync(w, rec.f, rec.a)
      [] rec.op = "linkSync" -> linkSync(w, rec.f, rec.a, rec.b)
      [] rec.op = "unlinkSync" -> unlinkSync(w, rec.f, rec.a)
      [] rec.op = "renameSync" -> renameSync(w, rec.f, rec.a, rec.b)
      [] rec.op = "symlinkSync" -> symlinkSync(w, rec.f, rec.a, rec.b)
      [] rec.op = "truncateSync" -> truncateSync(w, rec.f, rec.a, rec.pos)
      [] rec.op = "openSync" -> openSync(w, rec.f, rec.a, rec.flags, rec.mode)
      [] rec.op = "closeSync" -> closeSync(w, rec.f, rec.fd)
      [] OTHER -> Throw(w, "ENOSYS")

\* The same world with file system f not frozen.
Thawed(w, f) == [w EXCEPT !.fsys[f].frozen = FALSE]

\* The bytes of an inode: those of its Buffer, none when it has no Buffer yet.
bytesOf(w, h) == IF w.inode[h].buffer = 0 THEN <<>> ELSE w.buf[w.inode[h].buffer]

\* Directory entries, inode header fields and file bytes of file system f and of
\* every inode.
Content(w, f) ==
    [root |-> w.fsys[f].links,
     nodes |-> [h \in 1..Len(w.inode) |->
                    [type |-> w.inode[h].type,
                     ino |-> w.inode[h].ino,
                     mode |-> w.inode[h].mode,
                     uid |-> w.inode[h].uid,
                     gid |-> w.inode[h].gid,
                     nlink |-> w.inode[h].nlink,
                     links |-> w.inode[h].links,
                     symlink |-> w.inode[h].symlink,
                     bytes |-> bytesOf(w, h)]]]

\* The operations C3 names: the namespace operations, truncateSync, and openSync
\* with O_CREAT, O_TRUNC or a writable access mode.
Barred(rec) ==
    \/ rec.op \in {"mkdirSync", "rmdirSync", "linkSync", "unlinkSync", "renameSync",
                   "symlinkSync", "truncateSync"}
    \/ rec.op = "openSync" /\ (rec.flags \cap {"O_CREAT", "O_TRUNC", "O_WRONLY", "O_RDWR"}) # {}

\* C3 (write barrier per operation): on a file system on which makeReadonly() has
\* been called, every mkdirSync, rmdirSync, linkSync, unlinkSync, renameSync,
\* symlinkSync, truncateSync, and every openSync with O_CREAT, O_TRUNC or a
\* writable access mode, that would succeed on the unfrozen file system, fails
\* with EROFS and changes no directory entry, inode header field or file byte.
C3_WriteBarrier ==
    [][(fsys[1].frozen /\ Barred(last') /\ Run(Thawed(Start, 1), last').err = "OK")
          => (last'.err = "EROFS" /\ Content(World', 1) = Content(World, 1))]_vars

\* C4 (frozen means immutable): once makeReadonly() has returned, no operation on
\* that file system, writeSync, fsyncSync, fdatasyncSync and closeSync on
\* descriptors opened before the freeze included, changes any file's bytes, any
\* inode header field or any directory's entries.
C4_FrozenImmutable ==
    [][fsys[1].frozen => Content(World', 1) = Content(World, 1)]_vars

----------------------------------------------------------------------------
(* The namespace: directories, names, links and descriptors on them *)

Init == InitFrom(WorldTree)

Next ==
    \/ MkdirSync(1, PathB)
    \/ \E path \in {PathB, RootPath} : RmdirSync(1, path)
    \/ LinkSync(1, PathF, PathG)
    \/ \E path \in {PathF, PathG} : UnlinkSync(1, path)
    \/ \E oldpath \in {PathF, PathG}, newpath \in {PathF, PathG} :
          RenameSync(1, oldpath, newpath)
    \/ SymlinkSync(1, formatPath(RelF), PathB)
    \/ OpenSync(1, PathF, O_RDONLY, Mode666)
    \/ \E fd \in Fds : CloseSync(1, fd)

Spec == Init /\ [][Next]_vars

\* The inodes that the directories in S name, added to S, until nothing is added.
RECURSIVE closure(_, _)
closure(w, S) ==
    Let(S \cup {w.inode[h].links.values[n] : <<h, n>> \in
                   {x \in S \X Names : x[2] \in DOMAIN w.inode[x[1]].links.values}},
        LAMBDA T : IF T = S THEN S ELSE closure(w, T))

\* The inodes that some path from a root of file system f names.
Reachable(w, f) ==
    closure(w, {w.fsys[f].links.values[n] : n \in DOMAIN w.fsys[f].links.values})

\* The inodes that an open descriptor of file system f is open on.
Opened(w, f) ==
    {w.fsys[f].openFiles[fd].node :
        fd \in {x \in DOMAIN w.fsys[f].openFiles : w.fsys[f].openFiles[x].kind = "open"}}

\* The inodes the file system still holds: those a path names and those a
\* descriptor is open on.
Live(w, f) == Reachable(w, f) \cup Opened(w, f)

\* C5 (link-count invariant): after any sequence of mkdir, rmdir, link, unlink,
\* rename, symlink, open and close, every inode reachable by some path from a
\* root has nlink > 0, and every inode with nlink = 0 that the file system still
\* holds is referenced by at least one open descriptor.
C5_LinkCount ==
    /\ \A h \in Reachable(World, 1) : inode[h].nlink > 0
    /\ \A h \in Live(World, 1) : inode[h].nlink = 0 => h \in Opened(World, 1)

----------------------------------------------------------------------------
(* inotify: watches on the directories and files that are renamed and removed *)

PathBF == <<"/", "b", "f">>

\* After mkdirSync("/b"); symlinkSync("f", "/a/g")
WorldWatch ==
    [symlinkSync(mkdirSync(WorldTree, 1, PathB, Mode777).w, 1, formatPath(RelF), PathG).w
        EXCEPT !.events = <<>>]

MovedMask == {"IN_MOVED_FROM", "IN_MOVED_TO"}

WatchMasks ==
    {MovedMask, IN_ALL_EVENTS, MovedMask \cup {"IN_ONESHOT"}, IN_ALL_EVENTS \cup {"IN_ONESHOT"}}

WatchPaths == {PathA, PathB, PathF}

\* After fd = _inotify_init(); _inotify_add_watch(fd, path, mask)
watcher(w, path, mask) ==
    Let(_inotify_init(w, 1), LAMBDA i : _inotify_add_watch(i.w, 1, i.val, path, mask).w)

\* Two watchers, each with one watch.
Watched(p1, m1, p2, m2) ==
    [watcher(watcher(WorldWatch, p1, m1), p2, m2) EXCEPT !.events = <<>>]

InitWatch ==
    \E p1 \in WatchPaths, p2 \in WatchPaths, m1 \in WatchMasks,
       m2 \in {IN_ALL_EVENTS, IN_ALL_EVENTS \cup {"IN_ONESHOT"}} :
        InitFrom(Watched(p1, m1, p2, m2))

NextWatch ==
    \/ \E newpath \in {PathH, PathBF} : RenameSync(1, PathF, newpath)
    \/ RenameSync(1, PathG, PathF)
    \/ UnlinkSync(1, PathF)
    \/ RmdirSync(1, PathB)
    \/ \E fd \in Fds : CloseSync(1, fd)

SpecWatch == InitWatch /\ [][NextWatch]_vars

\* A step that is a successful renameSync(a, b) with a # b.
Renamed ==
    /\ last'.op = "renameSync"
    /\ last'.err = "OK"
    /\ last'.a # last'.b

\* The watch descriptors on inode h whose mask has IN_MOVED_FROM | IN_MOVED_TO and
\* is not one-shot.
Subscribed(h) ==
    {wd \in 1..Len(wdesc) :
        /\ \E i \in 1..Len(inode[h].watches) : inode[h].watches[i].wd = wd
        /\ MovedMask \subseteq wdesc[wd].mask
        /\ "IN_ONESHOT" \notin wdesc[wd].mask}

\* The events of the log that carry one of the bits.
EventsWith(log, bits) == SelectSeq(log, LAMBDA e : (e.mask \cap bits) # {})

\* The events of the log for watch descriptor wd that carry the bit.
EventsOf(log, wd, bit) == SelectSeq(log, LAMBDA e : e.wd = wd /\ bit \in e.mask)

\* Watch descriptor wd was handed exactly one event with the bit, for the name.
ExactlyOne(log, wd, bit, name) ==
    /\ Len(EventsOf(log, wd, bit)) = 1
    /\ EventsOf(log, wd, bit)[1].name = name

\* The directory that holds the old name, and the one that takes the new name.
OldParent(w, a) == _lfind(w, 1, _resolve(w, 1, a)).val.parent
NewParent(w, b) == _find(w, 1, dirname(_resolve(w, 1, b))).val.node

Unlinked ==
    {h \in 1..Len(inode) :
        /\ last'.op \in {"unlinkSync", "rmdirSync", "renameSync"}
        /\ last'.err = "OK"
        /\ inode[h].nlink > 0
        /\ inode'[h].nlink = 0}

\* The watch descriptors that target inode h.
Targeting(h) == {inode[h].watches[i].wd : i \in 1..Len(inode[h].watches)}

\* Watch descriptor wd was handed an IN_IGNORED event.
Ignored(log, wd) == EventsOf(log, wd, "IN_IGNORED") # <<>>

\* No inotify descriptor lists one of the watch descriptors wds.
Unlisted(files, wds) ==
    \A fd \in DOMAIN files :
        /\ files[fd].watches \cap wds = {}
        /\ \A path \in DOMAIN files[fd].paths : files[fd].paths[path] \notin wds

\* A one-shot watch that the log shows another event for: the delivery of that
\* event removed the watch.
Consumed(log, wd) ==
    /\ "IN_ONESHOT" \in wdesc[wd].mask
    /\ \E i \in DOMAIN log : log[i].wd = wd /\ "IN_IGNORED" \notin log[i].mask

\* C7 as stated (watch GC): whenever the last name of a watched inode is removed,
\* every watch descriptor that targeted the inode at the start of the operation,
\* whatever its mask, receives an IN_IGNORED event, and afterwards the inode
\* holds no watches and no inotify descriptor lists those watch descriptors.
C7_WatchGC ==
    [][\A h \in Unlinked :
          /\ \A wd \in Targeting(h) : Ignored(events', wd)
          /\ inode'[h].watches = <<>>
          /\ Unlisted(fsys'[1].openFiles, Targeting(h))]_vars

\* C7 amended (watch GC): whenever the last name of a watched inode is removed,
\* every watch descriptor that targeted the inode at the start of the operation
\* receives an IN_IGNORED event, except a one-shot watch to which the operation
\* has already delivered another event, which receives none; afterwards the
\* inode holds no watches and no inotify descriptor lists those watch descriptors.
C7_WatchGCAttached ==
    [][\A h \in Unlinked :
          /\ \A wd \in Targeting(h) : Ignored(events', wd) <=> ~Consumed(events', wd)
          /\ inode'[h].watches = <<>>
          /\ Unlisted(fsys'[1].openFiles, Targeting(h))]_vars

\* The last name of an inode with two watches was removed: one watch was handed
\* IN_IGNORED, the other, one-shot, was consumed by an earlier event.
C7_Witness ==
    /\ last.op \in {"unlinkSync", "rmdirSync", "renameSync"}
    /\ last.err = "OK"
    /\ \E i, j \in DOMAIN events :
          /\ "IN_IGNORED" \in events[i].mask
          /\ inode[wdesc[events[i].wd].node].nlink = 0
          /\ events[j].wd # events[i].wd
          /\ wdesc[events[j].wd].node = wdesc[events[i].wd].node
          /\ "IN_ONESHOT" \in wdesc[events[j].wd].mask
          /\ \A k \in DOMAIN events :
                events[k].wd = events[j].wd => "IN_IGNORED" \notin events[k].mask

----------------------------------------------------------------------------
(* The resolver on chains of symbolic links *)

RelG == <<"", "g">>

\* After symlinkSync("/a", "/a/h"); symlinkSync("g", "/a/g"): /a/h names /a, and
\* /a/g names itself.
WorldWalk ==
    [symlinkSync(symlinkSync(WorldTree, 1, formatPath(PathA), PathH).w, 1, formatPath(RelG), PathG).w
        EXCEPT !.events = <<>>]

InitWalk == InitFrom(WorldWalk)

\* The path /a/h/.../h/tail with k components h: resolving it expands /a/h k times.
Chain(k, tail) == PathA \o [i \in 1..k |-> "h"] \o tail

\* The paths given to statSync, which follows a last symlink, and to lstatSync,
\* which does not.
StatPaths == {Chain(k, tail) : k \in 0..MaxChain, tail \in {<<"f">>, <<"g">>}}
LstatPaths == {Chain(k, <<>>) : k \in 0..MaxChain} \cup {PathG}

NextWalk ==
    \/ \E path \in StatPaths : StatSync(1, path)
    \/ \E path \in LstatPaths : LstatSync(1, path)
    \/ OpenSync(1, PathG, O_RDONLY, Mode666)

SpecWalk == InitWalk /\ [][NextWalk]_vars

\* The number of components h of a path.
hops(path) == Cardinality({i \in DOMAIN path : path[i] = "h"})

\* The operation follows a symbolic link named by the last component.
Follows(rec) == rec.op # "lstatSync"

\* The symlink expansions that resolving the path of rec needs in WorldWalk, the
\* expansions of the self-referring /a/g apart.
Expansions(rec) ==
    IF ~Follows(rec) /\ rec.a[Len(rec.a)] = "h" THEN hops(rec.a) - 1 ELSE hops(rec.a)

\* Resolving the path of rec comes to follow /a/g, which names itself.
SelfLoop(rec) == Follows(rec) /\ rec.a[Len(rec.a)] = "g"

\* C8 (symlink loop detection): resolving a path whose traversal needs k symlink
\* expansions succeeds for every k <= 39 and fails with ELOOP for every k >= 40;
\* an operation that resolves a symlink pointing to itself fails with ELOOP and
\* never with another error or a result.
C8_LoopDetection ==
    last.op \in {"statSync", "lstatSync", "openSync"} =>
        IF SelfLoop(last) \/ Expansions(last) >= 40
        THEN last.err = "ELOOP"
        ELSE last.err = "OK"

\* A statSync of a path that needs exactly 40 expansions has failed with ELOOP.
C8_Witness ==
    /\ last.op = "statSync"
    /\ last.a = Chain(40, <<"f">>)
    /\ last.err = "ELOOP"

----------------------------------------------------------------------------
(* Operations that fail *)

InitFail == InitFrom(WorldTree)

NextFail ==
    \/ OpenSync(1, PathF, O_RDONLY, Mode666)
    \/ \E mode \in {Mode666, Mode444} : OpenSync(1, PathG, O_WRONLY \cup {"O_CREAT"}, mode)
    \/ \E path \in {PathA, PathFH} : MkdirSync(1, path)
    \/ \E path \in {PathA, PathG} : UnlinkSync(1, path)
    \/ \E path \in {PathA, PathB} : Pushd(1, path)
    \/ Popd(1)
    \/ \E fd \in Fds : WriteSync(1, fd, <<9>>, 0)
    \/ \E fd \in Fds : CloseSync(1, fd)

SpecFail == InitFail /\ [][NextFail]_vars

\* The descriptor table of file system f, a staged Buffer read as its bytes.
Descriptors(w, f) ==
    [fd \in DOMAIN w.fsys[f].openFiles |->
        [kind |-> w.fsys[f].openFiles[fd].kind,
         node |-> w.fsys[f].openFiles[fd].node,
         parent |-> w.fsys[f].openFiles[fd].parent,
         flags |-> w.fsys[f].openFiles[fd].flags,
         offset |-> w.fsys[f].openFiles[fd].offset,
         staged |-> IF w.fsys[f].openFiles[fd].buffer = 0 THEN <<>>
                    ELSE w.buf[w.fsys[f].openFiles[fd].buffer],
         watches |-> w.fsys[f].openFiles[fd].watches,
         paths |-> w.fsys[f].openFiles[fd].paths]]

\* The state of file system f that its operations show: directory entries, inode
\* headers and bytes, descriptor table, watch tables, current working directory
\* and directory stack.
Observable(w, f) ==
    [content |-> Content(w, f),
     files |-> Descriptors(w, f),
     watches |-> [h \in 1..Len(w.inode) |-> w.inode[h].watches],
     wdesc |-> w.wdesc,
     cwd |-> w.fsys[f].cwd,
     dirStack |-> w.fsys[f].dirStack]

\* C9 (failure atomicity): if an operation fails with an error, the post-state
\* (directory entries, inode headers and bytes, descriptor table, watch tables,
\* current working directory and directory stack) equals the pre-state.
C9_FailureAtomicity ==
    [][last'.err # "OK" => Observable(World', 1) = Observable(World, 1)]_vars

----------------------------------------------------------------------------
(* An unlinked file that is still open (checked under SpecIO) *)

\* The directory maps of file system f.
Links(w, f) ==
    [root |-> w.fsys[f].links, dirs |-> [h \in 1..Len(w.inode) |-> w.inode[h].links]]

\* The descriptors of file system 1 that are open on inode h.
OpenOn(h) ==
    {fd \in DOMAIN fsys[1].openFiles :
        fsys[1].openFiles[fd].kind = "open" /\ fsys[1].openFiles[fd].node = h}

\* The inodes that are open and lose their last name in the step, by unlinkSync.
Orphaned ==
    {h \in 1..Len(inode) :
        /\ last'.op = "unlinkSync"
        /\ last'.err = "OK"
        /\ inode[h].nlink > 0
        /\ inode'[h].nlink = 0
        /\ OpenOn(h) # {}}

\* The step is writeSync, fsyncSync or closeSync on a descriptor that is open on an
\* inode without names, a writeSync on a writable one.
OnOrphan ==
    /\ last'.op \in {"writeSync", "fsyncSync", "closeSync"}
    /\ last'.fd \in DOMAIN fsys[1].openFiles
    /\ fsys[1].openFiles[last'.fd].kind = "open"
    /\ inode[fsys[1].openFiles[last'.fd].node].nlink = 0
    /\ last'.op = "writeSync" => isWritable(fsys[1].openFiles[last'.fd])

\* C10 (an inode outlives its names while open): when unlinkSync removes the last
\* name of a regular file that has an open descriptor fd, lookup of the name then
\* fails with ENOENT and readSync(fd) still returns the file's bytes; writeSync,
\* fsyncSync and closeSync on fd succeed afterwards and create no directory entry.
C10_OutlivesNames ==
    [][/\ \A h \in Orphaned :
             /\ statSync(World', 1, last'.a).err = "ENOENT"
             /\ \A fd \in OpenOn(h) : ReadAll(World', 1, fd) = ReadAll(World, 1, fd)
       /\ OnOrphan =>
             /\ last'.err = "OK"
             /\ Links(World', 1) = Links(World, 1)
             /\ statSync(World', 1, PathF).err = "ENOENT"]_vars

\* A descriptor on the unlinked file has been written, published and closed, and
\* the directory has no entry for the file.
C10_Witness ==
    /\ last.op = "closeSync"
    /\ last.err = "OK"
    /\ inode[3].nlink = 0
    /\ bytesOf(World, 3) # Hi
    /\ "f" \notin DOMAIN inode[2].links.values

----------------------------------------------------------------------------
(* Hard links, in a file system and in its shadow *)

\* After linkSync("/a/f", "/a/g"); makeReadonly(); g = shadow()
WorldLinkShadow == shadow(makeReadonly(linkSync(WorldTree, 1, PathF, PathG).w, 1).w, 1, 2).w

\* The link is yet to be made in fs 1, or was made before fs 1 was frozen and
\* shadowed by fs 2.
InitLink == InitFrom(WorldTree) \/ InitFrom([WorldLinkShadow EXCEPT !.events = <<>>])

NextLink ==
    \/ LinkSync(1, PathF, PathG)
    \/ \E f \in {1, 2}, path \in {PathF, PathG} : TruncateSync(f, path, 1)
    \/ \E f \in {1, 2} : ChmodSync(f, PathF, Mode444)
    \/ \E f \in {1, 2} : OpenSync(f, PathG, O_RDWR, Mode666)
    \/ \E f \in {1, 2}, fd \in Fds : WriteSync(f, fd, <<9>>, 0)
    \/ \E f \in {1, 2}, fd \in Fds : CloseSync(f, fd)
    \/ \E f \in {1, 2} : UnlinkSync(f, PathG)

SpecLink == InitLink /\ [][NextLink]_vars

\* What fs.statSync(p) gives: the Stats record, or the error it throws.
StatOf(w, f, p) ==
    Let(statSync(w, f, p), LAMBDA r :
    IF r.err = "OK" THEN [err |-> "OK", stats |-> r.val]
    ELSE [err |-> r.err, stats |-> [ino |-> 0]])

\* In file system f, old and new are names of one regular file: both resolve and
\* statSync reports one ino.
Linked(w, f, old, new) ==
    /\ w.fsys[f].exists
    /\ StatOf(w, f, old).err = "OK"
    /\ StatOf(w, f, new).err = "OK"
    /\ StatOf(w, f, old).stats.ino = StatOf(w, f, new).stats.ino

\* statSync and readFileSync give one result through the names old and new.
SameFile(w, f, old, new) ==
    /\ StatOf(w, f, old) = StatOf(w, f, new)
    /\ ReadFile(w, f, old) = ReadFile(w, f, new)

----------------------------------------------------------------------------
(* A mounted directory *)

PathBH == <<"/", "b", "h">>
PathBHG == <<"/", "b", "h", "g">>

InitMount == InitFrom(WorldTree)

NextMount ==
    \/ MountSync(1, SourcePath, PathB)
    \/ \E path \in {PathA, PathB, PathBF, PathBHG} : StatSync(1, path)
    \/ \E path \in {PathA, PathB, PathBH} : ReaddirSync(1, path)
    \/ \E path \in {PathF, PathBF, PathBHG} : ReadFileSync(1, path)
    \/ \E path \in {PathB, PathBF} : ChmodSync(1, path, Mode444)
    \/ TruncateSync(1, PathBF, 1)
    \/ UnlinkSync(1, PathBF)

SpecMount == InitMount /\ [][NextMount]_vars

\* The path lies below the mount point: resolving it reads the children of the
\* mounted directory.
Below(path, mount) ==
    Len(path) > Len(mount) /\ SubSeq(path, 1, Len(mount)) = mount

\* No call is made twice on the resolver: one readdirSync for a directory, one
\* statSync for an entry, one readFileSync for a file.
CalledOnce == \A i, j \in DOMAIN calls : calls[i] = calls[j] => i = j

----------------------------------------------------------------------------
(* The callback-taking variants and the event loop *)

InitAsync == InitFrom(WorldTree)

NextAsync ==
    \/ Mkdir(1, PathB)
    \/ Rmdir(1, PathB)
    \/ Unlink(1, PathG)
    \/ \E newpath \in {PathG, PathFH} : Rename(1, PathF, newpath)
    \/ Open(1, PathF, O_RDONLY, Mode666)
    \/ \E fd \in Fds : Close(1, fd)
    \/ \E path \in {PathF, PathG} : Truncate(1, path, 1)
    \/ Tick

SpecAsync == InitAsync /\ [][NextAsync]_vars

\* The event loop comes to run every tick that has callbacks queued.
FairAsync == SpecAsync /\ WF_vars(Tick)

\* The callback of the id-th call is queued / has been invoked.
Queued(id) == \E i \in DOMAIN ticks : ticks[i].id = id
Invoked(id) == \E i \in DOMAIN invoked : invoked[i].id = id

\* The step is a callback-taking call: when it returns the state is the one the
\* synchronous variant leaves, no callback has been invoked, and one callback is
\* newly queued, with the result or the error of the synchronous variant.
AsyncCall ==
    last'.async =>
        /\ World' = Run(Start, last').w
        /\ invoked' = invoked
        /\ \E cb \in {[id |-> Len(ticks) + Len(invoked) + 1,
                      err |-> Run(Start, last').err,
                      val |-> Run(Start, last').val]} :
              /\ last'.err = cb.err
              /\ ticks' = Append(ticks, cb)

\* A callback is invoked by a tick only, with the arguments it was queued with,
\* and no callback is invoked twice.
OneCallback ==
    /\ invoked' # invoked =>
          /\ last'.op = "callback"
          /\ ticks # <<>>
          /\ invoked' = Append(invoked, Head(ticks))
          /\ World' = World
    /\ \A i, j \in DOMAIN invoked' : invoked'[i].id = invoked'[j].id => i = j
    /\ \A id \in 1..MaxCalls : ~(Queued(id)' /\ Invoked(id)')

\* C13 (asynchronous variants do not interleave mutations): the whole state change
\* of a callback-taking call is complete when the call returns and equals that of
\* the synchronous variant; the callback is not invoked before the call returns,
\* and is invoked exactly once on a later tick, with (null, result) when the
\* synchronous variant returns result and with the error when it throws.
C13_AsyncAtomic ==
    /\ [][AsyncCall /\ OneCallback]_vars
    /\ \A id \in 1..MaxCalls : Queued(id) ~> Invoked(id)

\* MaxCalls calls were made and their callbacks invoked in the order of the calls, the
\* callback of a failed call with its error.
C13_Witness ==
    /\ Len(invoked) = MaxCalls
    /\ ticks = <<>>
    /\ \A i \in 1..MaxCalls : invoked[i].id = i
    /\ \E i \in 1..MaxCalls : invoked[i].err = "ENOENT"
    /\ \E i \in 1..MaxCalls : invoked[i].err = "OK"

----------------------------------------------------------------------------
(* Directory order *)

PathRootF == <<"/", "F">>
PathRootLowerF == <<"/", "f">>

\* After new FileSystem(true); mkdirSync("/"); mkdirSync("/a"); writeFileSync("/F", "hi")
WorldIgnoreCase ==
    [writeFileSync(
        mkdirSync(mkdirSync([World0 EXCEPT !.fsys[1].ignoreCase = TRUE,
                                           !.fsys[1].links = SortedMap(TRUE)],
                            1, RootPath, Mode777).w, 1, PathA, Mode777).w,
        1, PathRootF, Hi, FlagW).w
        EXCEPT !.events = <<>>]

\* After makeReadonly(); g = shadow(false): the case-sensitive shadow of the
\* case-insensitive fs 1.
WorldCaseShadow == shadowWith(makeReadonly(WorldIgnoreCase, 1).w, 1, 2, FALSE).w

InitOrder == InitFrom(WorldIgnoreCase) \/ InitFrom(WorldCaseShadow)

NextOrder ==
    \/ \E f \in {1, 2}, path \in {PathRootLowerF, PathB} : MkdirSync(f, path)
    \/ \E f \in {1, 2}, newpath \in {PathRootLowerF, PathG} : RenameSync(f, PathRootF, newpath)
    \/ \E f \in {1, 2} : LinkSync(f, PathRootF, PathF)
    \/ \E f \in {1, 2} : UnlinkSync(f, PathRootLowerF)
    \/ \E f \in {1, 2} : MountSync(f, UnorderedSourcePath, PathB)
    \/ \E f \in {1, 2}, path \in {RootPath, PathA, PathB} : ReaddirSync(f, path)

SpecOrder == InitOrder /\ [][NextOrder]_vars

\* The keys are in strictly ascending order under the comparator.
Ascending(keys, ignoreCase) ==
    \A i, j \in DOMAIN keys : i < j => compareWorker(keys[i], keys[j], ignoreCase) < 0

\* The map holds its keys in the order of the comparator, one value for each.
Ordered(m, ignoreCase) ==
    /\ Ascending(m.keys, ignoreCase)
    /\ DOMAIN m.values = {m.keys[i] : i \in DOMAIN m.keys}

\* C14 (directory ordering): in every file system, the root map and the children
\* map of every directory that a path names are in strictly ascending order under
\* the comparator the file system was constructed with, so no two of their names
\* compare equal, and a readdirSync that returns gives the names of the directory
\* in that order.
C14_DirectoryOrder ==
    /\ \A f \in {1, 2} :
          Exists(f) =>
             /\ fsys[f].hasLinks => Ordered(fsys[f].links, fsys[f].ignoreCase)
             /\ \A h \in Reachable(World, f) :
                   inode[h].hasLinks => Ordered(inode[h].links, fsys[f].ignoreCase)
    /\ (last.op = "readdirSync" /\ last.err = "OK") =>
          /\ Ascending(last.val, fsys[last.f].ignoreCase)
          /\ last.val = inode[_find(World, last.f, last.a).val.node].links.keys

\* readdirSync of "/" in the case-insensitive file system gives a, b, F; in code
\* unit order F comes first.
C14_Witness ==
    /\ last.op = "readdirSync"
    /\ last.err = "OK"
    /\ fsys[last.f].ignoreCase
    /\ last.val = <<"a", "b", "F">>

----------------------------------------------------------------------------
(* Descriptors that are not in the table *)

InitClose == InitFrom(WorldTree)

NextClose ==
    \/ \E flags \in {O_RDONLY, O_RDWR} : OpenSync(1, PathF, flags, Mode666)
    \/ InotifyInit(1)
    \/ \E fd \in Fds : CloseSync(1, fd)
    \/ \E fd \in Fds, len \in {0, 1} : ReadSync(1, fd, len, -1)
    \/ \E fd \in Fds, data \in {<<>>, <<9>>} : WriteSync(1, fd, data, -1)
    \/ \E fd \in Fds : FstatSync(1, fd)
    \/ \E fd \in Fds : FsyncSync(1, fd)

SpecClose == InitClose /\ [][NextClose]_vars

\* The step is a closeSync, readSync, writeSync, fstatSync or fsyncSync on a
\* number that the descriptor table does not hold.
OnUnknownFd ==
    /\ last'.op \in {"closeSync", "readSync", "writeSync", "fstatSync", "fsyncSync"}
    /\ last'.fd \notin DOMAIN fsys[last'.f].openFiles

\* The variables, with the last operation told by its name, arguments and error.
operation == <<inode, buf, fsys, wdesc, cnt, events, [last EXCEPT !.val = 0]>>

\* The step emits no event and changes nothing.
Untouched ==
    /\ events' = <<>>
    /\ inode' = inode
    /\ buf' = buf
    /\ fsys' = fsys
    /\ wdesc' = wdesc
    /\ cnt' = cnt

\* A closeSync that returns takes its number out of the table, and a number that
\* was issued and is out of the table stays out.
ClosedForGood ==
    /\ (last'.op = "closeSync" /\ last'.err = "OK") =>
          last'.fd \notin DOMAIN fsys'[last'.f].openFiles
    /\ \A fd \in 1..cnt.fd :
          fd \notin DOMAIN fsys[1].openFiles => fd \notin DOMAIN fsys'[1].openFiles

\* readSync of no bytes, writeSync of no bytes
ZeroLength ==
    \/ last'.op = "readSync" /\ last'.len = 0
    \/ last'.op = "writeSync" /\ last'.data = <<>>

\* C15 (unknown descriptors), as stated: closeSync, readSync, writeSync, fstatSync
\* and fsyncSync on a number that is not in the descriptor table, never issued or
\* closed before, fail with EBADF, emit no event and change no state.
C15_UnknownFd ==
    [][/\ OnUnknownFd => (last'.err = "EBADF" /\ Untouched)
       /\ ClosedForGood]_operation

\* C15 (unknown descriptors), for calls that reach the descriptor table: on a
\* number that is not in the table, closeSync, fstatSync, fsyncSync, and readSync
\* and writeSync of at least one byte fail with EBADF; readSync and writeSync of
\* no bytes return without looking at the descriptor.  None of them emits an
\* event or changes state, and a closed number never comes back.
C15_UnknownFdNonEmpty ==
    [][/\ OnUnknownFd =>
             /\ Untouched
             /\ last'.err = IF ZeroLength THEN "OK" ELSE "EBADF"
       /\ ClosedForGood]_operation

\* The second closeSync of a descriptor has failed with EBADF.
C15_Witness ==
    /\ last.op = "closeSync"
    /\ last.err = "EBADF"
    /\ last.fd \in (WorldTree.cnt.fd + 1)..cnt.fd
    /\ last.fd \notin DOMAIN fsys[1].openFiles

----------------------------------------------------------------------------
(* Appending *)

InitAppend == InitFrom(WorldTree)

NextAppend ==
    \/ \E flags \in {O_RDWR, O_RDWR \cup O_APPEND} : OpenSync(1, PathF, flags, Mode666)
    \/ \E fd \in Fds : ReadSync(1, fd, 1, -1)
    \/ \E path \in {PathF, PathG} : AppendFileSync(1, path, <<9>>)
    \/ \E fd \in Fds : AppendFileSyncFd(1, fd, <<9>>)
    \/ \E fd \in Fds : CloseSync(1, fd)

SpecAppend == InitAppend /\ [][NextAppend]_vars

\* The bytes of the file that path names: none when there is no such file.
BytesAt(w, f, path) == ReadFile(w, f, path).bytes

\* The bytes of the file as descriptor fd holds them: the Buffer it has staged, or
\* the bytes of the inode when it has staged none.
BytesThrough(w, f, fd) ==
    IF w.fsys[f].openFiles[fd].buffer # 0 THEN w.buf[w.fsys[f].openFiles[fd].buffer]
    ELSE bytesOf(w, w.fsys[f].openFiles[fd].node)

\* The step is an appendFileSync that has returned.
Appended == last'.op = "appendFileSync" /\ last'.err = "OK"

\* C16 (append writes at end-of-file): after appendFileSync(target, data) returns,
\* with target a path or an open writable descriptor at any offset, the content of
\* the file is its content before the call followed by data.
C16_AppendAtEnd ==
    [][Appended =>
          IF last'.fd = 0
          THEN BytesAt(World', last'.f, last'.a) = BytesAt(World, last'.f, last'.a) \o last'.data
          ELSE BytesThrough(World', last'.f, last'.fd)
                  = BytesThrough(World, last'.f, last'.fd) \o last'.data]_operation

\* appendFileSync(path, data) alone: the content of the file that path names is
\* its content before the call followed by data.
AppendByPath ==
    [][(Appended /\ last'.fd = 0) =>
          BytesAt(World', last'.f, last'.a) = BytesAt(World, last'.f, last'.a) \o last'.data]_operation

----------------------------------------------------------------------------
(* Move cookies *)

\* A second file system, fs 2 = new FileSystem(false), with mkdirSync("/");
\* mkdirSync("/a"); mkdirSync("/a/f"), next to fs 1; in fs 1 one inotify descriptor
\* watches /a and /a/f for all events.
WorldCookie ==
    Let(mkdirSync(mkdirSync(mkdirSync([WorldTree EXCEPT !.fsys[2] = NewFileSystem],
                                      2, RootPath, Mode777).w, 2, PathA, Mode777).w,
                  2, PathF, Mode777).w, LAMBDA w :
    Let(_inotify_init(w, 1), LAMBDA i :
    [_inotify_add_watch(_inotify_add_watch(i.w, 1, i.val, PathA, IN_ALL_EVENTS).w,
                        1, i.val, PathF, IN_ALL_EVENTS).w
        EXCEPT !.events = <<>>]))

InitCookie == InitFrom(WorldCookie)

NextCookie ==
    \/ \E f \in {1, 2} : RenameSync(f, PathF, PathG)
    \/ \E f \in {1, 2} : RenameSync(f, PathG, PathF)
    \/ \E flags \in {O_RDWR, {"O_RDWR", "O_CREAT"}} : OpenSync(1, PathF, flags, Mode666)
    \/ \E fd \in Fds : ReadSync(1, fd, 1, 0)
    \/ \E fd \in Fds : WriteSync(1, fd, <<9>>, 0)
    \/ \E fd \in Fds : CloseSync(1, fd)
    \/ ChmodSync(1, PathF, Mode444)
    \/ UnlinkSync(1, PathF)

SpecCookie == InitCookie /\ [][NextCookie]_vars

\* C17 (move cookies): cookieCount, which all file systems share, never goes
\* down; each successful rename takes the next value, greater than that of every
\* earlier rename in any file system, every IN_MOVED_FROM and IN_MOVED_TO event
\* of the rename carries that value, and every other event (create, delete,
\* attrib, modify, open, close, access, ignored, move-self) carries cookie 0; a
\* step that is not a successful rename hands out no event with a cookie.
C17_MoveCookies ==
    [][/\ cnt'.cookie >= cnt.cookie
       /\ Renamed => cnt'.cookie > cnt.cookie
       /\ ~Renamed => cnt'.cookie = cnt.cookie /\ EventsWith(events', MovedMask) = <<>>
       /\ \A i \in DOMAIN events' :
             events'[i].cookie = IF (events'[i].mask \cap MovedMask) # {}
                                 THEN cnt'.cookie ELSE 0]_operation

\* A rename in fs 1, after a rename in fs 2, has handed its watcher IN_MOVED_FROM
\* and IN_MOVED_TO with the second cookie.
C17_Witness ==
    /\ last.op = "renameSync"
    /\ last.err = "OK"
    /\ last.f = 1
    /\ cnt.cookie = MaxCookie
    /\ \E i, j \in DOMAIN events :
          /\ "IN_MOVED_FROM" \in events[i].mask
          /\ "IN_MOVED_TO" \in events[j].mask
          /\ events[i].cookie = MaxCookie
          /\ events[j].cookie = MaxCookie
    /\ \E k \in DOMAIN events : events[k].cookie = 0

----------------------------------------------------------------------------
(* Permission checks *)

\* 0o600, 0o050, 0o003
Mode600 == {"S_IRUSR", "S_IWUSR"}
Mode050 == {"S_IRGRP", "S_IXGRP"}
Mode003 == {"S_IWOTH", "S_IXOTH"}

InitAccess == InitFrom(WorldTree)

NextAccess ==
    \/ \E value \in {0, 1} : Setuid(1, value)
    \/ \E value \in {0, 1} : Setgid(1, value)
    \/ MkdirSync(1, PathB)
    \/ \E mode \in {Mode600, Mode777} : ChmodSync(1, PathA, mode)
    \/ \E mode \in {Mode600, Mode050, Mode003} : ChmodSync(1, PathB, mode)
    \/ \E path \in {PathF, PathB}, mode \in SUBSET RWX_OK : AccessSync(1, path, mode)

SpecAccess == InitAccess /\ [][NextAccess]_vars

\* The inode that the names of path lead to from the root map, whatever the
\* permissions on the way: 0 when a name is missing.
RECURSIVE NodeFrom(_, _, _, _)
NodeFrom(w, links, path, i) ==
    IF path[i] \notin DOMAIN links.values THEN 0
    ELSE IF i = Len(path) THEN links.values[path[i]]
    ELSE NodeFrom(w, w.inode[links.values[path[i]]].links, path, i + 1)

NodeAt(w, f, path) == NodeFrom(w, w.fsys[f].links, path, 1)

\* The access bits that the mode bits in class grant.
Bits(mode, class) ==
    {b \in RWX_OK : \/ b = "r" /\ class[1] \in mode
                    \/ b = "w" /\ class[2] \in mode
                    \/ b = "x" /\ class[3] \in mode}

\* The access bits that file system f, with its effective uid and gid, has on
\* inode h: the other-bits, the group-bits if the gid is the inode's, the
\* owner-bits if the uid is the inode's.
Granted(w, f, h) ==
    Bits(w.inode[h].mode, <<"S_IROTH", "S_IWOTH", "S_IXOTH">>)
    \cup (IF w.fsys[f].gid = w.inode[h].gid
          THEN Bits(w.inode[h].mode, <<"S_IRGRP", "S_IWGRP", "S_IXGRP">>) ELSE {})
    \cup (IF w.fsys[f].uid = w.inode[h].uid
          THEN Bits(w.inode[h].mode, <<"S_IRUSR", "S_IWUSR", "S_IXUSR">>) ELSE {})

\* Every directory above the last name of path grants search to file system f.
Searchable(w, f, path) ==
    \A i \in 1..(Len(path) - 1) : "x" \in Granted(w, f, NodeAt(w, f, SubSeq(path, 1, i)))

\* C18 (permission check), as stated: accessSync(path, mode) on an existing node
\* succeeds iff the bits of mode are all granted on the node, and fails with
\* EACCES otherwise, for uid 0 as for any other uid.
C18_PermissionCheck ==
    [][(last'.op = "accessSync" /\ NodeAt(World, last'.f, last'.a) # 0) =>
          last'.err = IF last'.mode \subseteq Granted(World, last'.f,
                                                       NodeAt(World, last'.f, last'.a))
                      THEN "OK" ELSE "EACCES"]_operation

\* C18 (permission check), for a node that the caller can reach: when every
\* directory on the way to the node grants search, accessSync(path, mode) succeeds
\* iff the bits of mode are all granted on the node, and fails with EACCES
\* otherwise, for uid 0 as for any other uid; when a directory on the way refuses
\* search, it fails with EACCES whatever the node grants.
C18_PermissionCheckReachable ==
    [][(last'.op = "accessSync" /\ NodeAt(World, last'.f, last'.a) # 0) =>
          last'.err = IF /\ Searchable(World, last'.f, last'.a)
                         /\ last'.mode \subseteq Granted(World, last'.f,
                                                         NodeAt(World, last'.f, last'.a))
                      THEN "OK" ELSE "EACCES"]_operation

\* uid 0 was refused on a node of another owner whose bits do not cover the mode.
C18_Witness ==
    /\ last.op = "accessSync"
    /\ last.err = "EACCES"
    /\ fsys[1].uid = 0
    /\ NodeAt(World, 1, last.a) # 0
    /\ Searchable(World, 1, last.a)
    /\ inode[NodeAt(World, 1, last.a)].uid # 0
    /\ ~(last.mode \subseteq Granted(World, 1, NodeAt(World, 1, last.a)))

----------------------------------------------------------------------------
(* Symbolic link targets *)

\* "f", "./f", "../a/f", "/a//f", "/a/", "/a/f" and the invalid "*"
TargetF == <<"f">>
TargetDotF == <<".", "/", "f">>
TargetUpAF == <<"..", "/", "a", "/", "f">>
TargetTwice == <<"/", "a", "/", "/", "f">>
TargetTrailing == <<"/", "a", "/">>
TargetAF == <<"/", "a", "/", "f">>
TargetInvalid == <<"*">>

Targets ==
    {TargetF, TargetDotF, TargetUpAF, TargetTwice, TargetTrailing, TargetAF, TargetInvalid}

InitSymlink == InitFrom(WorldTree)

NextSymlink ==
    \/ \E target \in Targets, linkpath \in {PathG, PathH} : SymlinkSync(1, target, linkpath)
    \/ \E path \in {PathF, PathG, PathH} : ReadlinkSync(1, path)
    \/ \E path \in {PathG, PathH} : ReadFileSync(1, path)

SpecSymlink == InitSymlink /\ [][NextSymlink]_vars

\* The step is a readlinkSync of the link that the step before it made.
ReadsBack ==
    /\ last.op = "symlinkSync"
    /\ last.err = "OK"
    /\ last'.op = "readlinkSync"
    /\ last'.f = last.f
    /\ last'.a = last.b

\* C19 (symlink targets round-trip verbatim): for every target that symlinkSync
\* (target, link) accepts, relative or absolute, with "." or ".." segments,
\* repeated separators or a trailing separator, the readlinkSync(link) that
\* follows returns exactly the string target.
C19_TargetRoundTrip ==
    [][ReadsBack => (last'.err = "OK" /\ last'.val = last.a)]_operation

\* What does hold: readlinkSync gives the string of the reduced components of
\* the target, with a separator at the end when the target had one.
TargetNormalized ==
    [][ReadsBack => (last'.err = "OK" /\ last'.val = validatePath(World, last.a).val)]_operation

----------------------------------------------------------------------------
(* Polling watchers *)

Listeners == {1, 2}

InitPoll == InitFrom(WorldTree)

NextPoll ==
    \/ \E listener \in Listeners : WatchFile(1, PathF, listener)
    \/ WatchFile(1, PathG, 1)
    \/ \E callback \in {0} \cup Listeners, scheduled \in BOOLEAN :
          UnwatchFile(1, PathF, callback, scheduled)
    \/ UnwatchFile(1, PathG, 0, FALSE)
    \/ \E handle \in 1..MaxPolls : Interval(handle)
    \/ TruncateSync(1, PathF, 0)
    \/ UnlinkSync(1, PathF)

SpecPoll == InitPoll /\ [][NextPoll]_vars

\* The WatchedFiles registered for path in file system f, in the order of the set.
RegisteredFor(w, f, path) ==
    IF path \in DOMAIN w.fsys[f].watchedFiles THEN w.fsys[f].watchedFiles[path] ELSE <<>>

\* The WatchedFile is in the set of its path: watchFile put it there and no
\* unwatchFile has taken it out.
Registered(w, file) ==
    \E i \in DOMAIN RegisteredFor(w, w.poll.files[file].fs, w.poll.files[file].path) :
        RegisteredFor(w, w.poll.files[file].fs, w.poll.files[file].path)[i] = file

\* The stat record of path now: that of statSync, or new Stats() when path names
\* nothing.
Polled(w, f, path) ==
    Let(statSync(w, f, path), LAMBDA r : IF r.err = "OK" THEN r.val ELSE NoStats)

\* unwatchFile(path, callback) takes out of the set of path the registrations
\* that callback selects, all of them when there is no callback, leaves the
\* sets of the other paths alone and calls no listener.
Unwatches ==
    last'.op = "unwatchFile" =>
        /\ RegisteredFor(World', last'.f, last'.a) =
               SelectSeq(RegisteredFor(World, last'.f, last'.a),
                         LAMBDA file : /\ last'.listener # 0
                                       /\ poll.files[file].listener # last'.listener)
        /\ \A path \in {PathF, PathG} \ {last'.a} :
               RegisteredFor(World', last'.f, path) = RegisteredFor(World, last'.f, path)
        /\ poll'.heard = <<>>

\* A tick of the interval of a WatchedFile calls its listener, once, with the
\* stat record of now and the snapshot, which it replaces, when the WatchedFile
\* is registered and the two differ; otherwise it calls no listener.
Polls ==
    last'.op = "interval" =>
        Let(poll.intervals[last'.pos].file, LAMBDA file :
        Let(Polled(World, poll.files[file].fs, poll.files[file].path), LAMBDA current :
        IF Registered(World, file) /\ current # poll.files[file].previous
        THEN /\ poll'.heard = <<[file |-> file, listener |-> poll.files[file].listener,
                                 current |-> current,
                                 previous |-> poll.files[file].previous]>>
             /\ poll'.files[file].previous = current
        ELSE /\ poll'.heard = <<>>
             /\ poll'.files = poll.files))

\* C20 (poll watcher cancellation): a registration that unwatchFile(path) took
\* out is never registered again, and no tick afterwards, not even one that was
\* already scheduled when the interval was cleared, calls its listener;
\* unwatchFile(path, l) takes out the registrations of listener l only, and every
\* registration left is called on the next tick of its interval at which the
\* stat record of path differs from its snapshot.  Nothing but a tick, or a
\* watchFile of a path that names nothing, calls a listener.
C20_PollCancellation ==
    [][/\ Unwatches
       /\ Polls
       /\ \A file \in DOMAIN poll.files : ~Registered(World, file) => ~Registered(World', file)
       /\ last'.op \notin {"interval", "watchFile"} => poll'.heard = <<>>]_<<operation, poll>>

\* A tick that was due when unwatchFile(path, l) cleared its interval has been
\* delivered: the stat record differs from the snapshot of the registration of l,
\* no listener was called, and another listener is still registered for path.
C20_Witness ==
    /\ last.op = "interval"
    /\ last.err = "OK"
    /\ poll.intervals[last.pos].state = "cleared"
    /\ poll.heard = <<>>
    /\ Let(poll.intervals[last.pos].file, LAMBDA file :
           /\ ~Registered(World, file)
           /\ poll.files[file].previous # Polled(World, poll.files[file].fs, poll.files[file].path)
           /\ \E other \in DOMAIN poll.files :
                  /\ Registered(World, other)
                  /\ poll.files[other].path = poll.files[file].path
                  /\ poll.files[other].listener # poll.files[file].listener)

----------------------------------------------------------------------------
(* Path strings, character by character: normalizeSeparators, parse, format *)

MaxPathLen == 4     \* characters of a path string

\* A separator of either kind, a space and a name character.
PathChars == {"/", "\\", " ", "a"}

PathStrings == UNION {[1..n -> PathChars] : n \in 0..MaxPathLen}

\* [\\/]
isSeparator(c) == c \in {"/", "\\"}

\* The space at i is in a run of spaces that touches a separator: \s*[\\/]\s*
\* takes it with the separator.
padding(path, i) ==
    /\ path[i] = " "
    /\ \E j \in DOMAIN path :
          /\ isSeparator(path[j])
          /\ \A k \in DOMAIN path : ((i < k /\ k < j) \/ (j < k /\ k < i)) => path[k] = " "

\* The space at i is in a run of spaces at an end of the string.
outer(path, i) ==
    /\ path[i] = " "
    /\ \/ \A k \in 1..i : path[k] = " "
       \/ \A k \in i..Len(path) : path[k] = " "

\* string.trim()
trim(string) ==
    Let(SelectSeq([i \in DOMAIN string |-> i], LAMBDA i : ~outer(string, i)), LAMBDA kept :
    [k \in DOMAIN kept |-> string[kept[k]]])

\* path.replace(/\s*[\\/]\s*/g, sep).trim()
normalizeSeparators(path) ==
    Let(SelectSeq([i \in DOMAIN path |-> i], LAMBDA i : ~padding(path, i)), LAMBDA kept :
    trim([k \in DOMAIN kept |-> IF isSeparator(path[kept[k]]) THEN sep ELSE path[kept[k]]]))

\* The place of the first separator of path at or after from, 0 without one.
firstSeparator(path, from) ==
    Let({i \in from..Len(path) : isSeparator(path[i])}, LAMBDA at :
    IF at = {} THEN 0 ELSE CHOOSE i \in at : \A j \in at : i <= j)

\* getRootLength for a string without ":": the match of
\* ^[\\/]([\\/](.*?[\\/](.*?[\\/])?)?)? in absolutePathRegExp, which takes "/", or
\* "//" with what follows up to the second separator after it.
rootLength(path) ==
    IF Len(path) = 0 \/ ~isSeparator(path[1]) THEN 0
    ELSE IF Len(path) < 2 \/ ~isSeparator(path[2]) THEN 1
    ELSE Let(firstSeparator(path, 3), LAMBDA host :
         IF host = 0 THEN 2
         ELSE Let(firstSeparator(path, host + 1), LAMBDA share :
              IF share = 0 THEN host ELSE share))

\* rest.split(/\/+/g), from the character at i on; piece is the piece begun.
RECURSIVE splitFrom(_, _, _)
splitFrom(rest, i, piece) ==
    IF i > Len(rest) THEN <<piece>>
    ELSE IF rest[i] # sep THEN splitFrom(rest, i + 1, Append(piece, rest[i]))
    ELSE IF i > 1 /\ rest[i - 1] = sep THEN splitFrom(rest, i + 1, piece)
    ELSE <<piece>> \o splitFrom(rest, i + 1, <<>>)

split(rest) == splitFrom(rest, 1, <<>>)

\* vpath.parse of a string: the components are strings, the root first.
parseString(path0) ==
    Let(normalizeSeparators(path0), LAMBDA path :
    Let(rootLength(path), LAMBDA n :
    Let(split(SubSeq(path, n + 1, Len(path))), LAMBDA rest :
    Let(IF Len(rest) > 0 /\ rest[Len(rest)] = <<>> THEN SubSeq(rest, 1, Len(rest) - 1) ELSE rest,
        LAMBDA popped :
    <<SubSeq(path, 1, n)>> \o [i \in DOMAIN popped |-> trim(popped[i])]))))

\* components.slice(1).join(sep), from the component at i on
RECURSIVE joinFrom(_, _)
joinFrom(components, i) ==
    IF i > Len(components) THEN <<>>
    ELSE (IF i > 2 THEN <<sep>> ELSE <<>>) \o components[i] \o joinFrom(components, i + 1)

\* vpath.format to a string
formatString(components) ==
    IF Len(components) = 0 THEN <<>> ELSE components[1] \o joinFrom(components, 2)

\* vpath.isRoot, vpath.removeTrailingSeparator of a string
isRootString(path) == rootLength(path) > 0 /\ rootLength(path) = Len(path)

removeTrailingSeparatorString(path) ==
    IF Len(path) > 0 /\ isSeparator(path[Len(path)]) /\ ~isRootString(path)
    THEN SubSeq(path, 1, Len(path) - 1)
    ELSE path

\* The variables that hold the file systems, which the path functions leave alone.
fileSystems ==
    <<inode, buf, fsys, wdesc, cnt, events, calls, ticks, invoked, poll, stamps, watchers>>

InitPath ==
    \E p \in PathStrings :
        /\ inode = World0.inode
        /\ buf = World0.buf
        /\ fsys = World0.fsys
        /\ wdesc = World0.wdesc
        /\ cnt = World0.cnt
        /\ events = World0.events
        /\ calls = World0.calls
        /\ poll = World0.poll
        /\ stamps = World0.stamps
        /\ watchers = World0.watchers
        /\ ticks = <<>>
        /\ invoked = <<>>
        /\ last = [NoOp EXCEPT !.op = "path", !.a = p]

\* components = vpath.parse(path)
Parse ==
    /\ last.op = "path"
    /\ last' = [last EXCEPT !.op = "parse", !.data = parseString(last.a)]
    /\ UNCHANGED fileSystems

\* vpath.format(components)
Format ==
    /\ last.op = "parse"
    /\ last' = [last EXCEPT !.op = "format", !.b = formatString(last.data)]
    /\ UNCHANGED fileSystems

NextPath == Parse \/ Format

SpecPath == InitPath /\ [][NextPath]_vars

\* C21 (parse/format round trip): for every path string p over separators,
\* spaces and name characters, format(parse(p)) is normalizeSeparators(p)
\* without its trailing separator, unless that string is a root.
C21_ParseFormat ==
    last.op = "format" => last.b = removeTrailingSeparatorString(normalizeSeparators(last.a))

\* What holds for the strings whose separators after the root stand alone.
SingleSeparators ==
    (/\ last.op = "format"
     /\ Let(normalizeSeparators(last.a), LAMBDA path :
            \A i \in (rootLength(path) + 1)..Len(path) :
                path[i] = sep => (i > rootLength(path) + 1 /\ path[i - 1] # sep)))
    => last.b = removeTrailingSeparatorString(normalizeSeparators(last.a))

----------------------------------------------------------------------------
(* normalize on path strings *)

MaxDotLen == 5      \* characters of a path string with dots

DotChars == {"/", "\\", ".", "a"}

DotStrings == UNION {[1..n -> DotChars] : n \in 0..MaxDotLen}

\* The string of a sequence of characters, as reduce compares it with "." and "..".
RECURSIVE text(_)
text(chars) == IF Len(chars) = 0 THEN "" ELSE chars[1] \o text(SubSeq(chars, 2, Len(chars)))

\* reduce(components) for components that are sequences of characters: reduce
\* only drops components, so each one it keeps is one of those given.
reduceString(components) ==
    Let(reduce([i \in DOMAIN components |-> text(components[i])]), LAMBDA normalized :
    [i \in DOMAIN normalized |->
        CHOOSE c \in {components[j] : j \in DOMAIN components} : text(c) = normalized[i]])

\* vpath.hasTrailingSeparator of a string
hasTrailingSeparatorString(path) ==
    Len(path) > 0 /\ isSeparator(path[Len(path)]) /\ ~isRootString(path)

\* vpath.normalize of a string
normalizeString(path) ==
    Let(reduceString(parseString(path)), LAMBDA components :
    IF Len(components) > 1 /\ hasTrailingSeparatorString(path)
    THEN formatString(components) \o <<sep>>
    ELSE formatString(components))

InitDots ==
    \E p \in DotStrings :
        /\ inode = World0.inode
        /\ buf = World0.buf
        /\ fsys = World0.fsys
        /\ wdesc = World0.wdesc
        /\ cnt = World0.cnt
        /\ events = World0.events
        /\ calls = World0.calls
        /\ poll = World0.poll
        /\ stamps = World0.stamps
        /\ watchers = World0.watchers
        /\ ticks = <<>>
        /\ invoked = <<>>
        /\ last = [NoOp EXCEPT !.op = "path", !.b = p]

\* vpath.normalize(path) of the string at hand: the one given, then the result
\* of the first normalize.
Normalize ==
    /\ last.pos < 2
    /\ last' = [last EXCEPT !.op = "normalize", !.a = last.b, !.b = normalizeString(last.b),
                            !.pos = @ + 1]
    /\ UNCHANGED fileSystems

NextDots == Normalize

SpecDots == InitDots /\ [][NextDots]_vars

\* The segments of a path string: its components after the root.
Segments(path) == Tail(parseString(path))

\* C22 (normalize never escapes the root): normalize of an absolute path keeps
\* the root component of the path and has no "." and no ".." segment, and for
\* every path, relative or absolute, normalize of a normalized path gives it back.
C22_NormalizeInRoot ==
    last.op = "normalize" =>
        /\ rootLength(last.a) > 0 =>
              /\ parseString(last.b)[1] = parseString(last.a)[1]
              /\ \A i \in DOMAIN Segments(last.b) :
                    Segments(last.b)[i] \notin {<<".">>, <<".", ".">>}
        /\ last.pos = 2 => last.b = last.a

\* normalize("/../a") gave "/a": the ".." at the root is gone.
C22_Witness ==
    /\ last.op = "normalize"
    /\ last.pos = 1
    /\ last.a = <<"/", ".", ".", "/", "a">>
    /\ last.b = <<"/", "a">>

----------------------------------------------------------------------------
(* The three events of a rename *)

MoveMask == {"IN_MOVED_FROM", "IN_MOVED_TO", "IN_MOVE_SELF"}

\* The place of a move event in the order from, to, self.
MoveRank(e) ==
    IF "IN_MOVED_FROM" \in e.mask THEN 1 ELSE IF "IN_MOVED_TO" \in e.mask THEN 2 ELSE 3

\* The watch descriptors on inode h whose mask has the bit.
WatchesFor(h, bit) ==
    {wd \in 1..Len(wdesc) :
        /\ \E i \in 1..Len(inode[h].watches) : inode[h].watches[i].wd = wd
        /\ bit \in wdesc[wd].mask}

\* C23 (rename event triple): a successful renameSync hands every watch on the
\* old parent one IN_MOVED_FROM, every watch on the new parent one IN_MOVED_TO
\* and every watch on the moved node one IN_MOVE_SELF, in this order, and all
\* three kinds of event carry the cookie minted by this rename, which is not 0.
C23_RenameTriple ==
    [][(Renamed /\ last'.f = 1) =>
          Let(EventsWith(events', MoveMask), LAMBDA moves :
          /\ cnt'.cookie > cnt.cookie
          /\ \A i, j \in DOMAIN moves : i < j => MoveRank(moves[i]) <= MoveRank(moves[j])
          /\ \A wd \in WatchesFor(OldParent(Start, last'.a), "IN_MOVED_FROM") :
                Len(EventsOf(events', wd, "IN_MOVED_FROM")) = 1
          /\ \A wd \in WatchesFor(NewParent(Start, last'.b), "IN_MOVED_TO") :
                Len(EventsOf(events', wd, "IN_MOVED_TO")) = 1
          /\ \A wd \in WatchesFor(_lfind(Start, 1, _resolve(Start, 1, last'.a)).val.node,
                                  "IN_MOVE_SELF") :
                Len(EventsOf(events', wd, "IN_MOVE_SELF")) = 1
          /\ \A i \in DOMAIN moves : moves[i].cookie = cnt'.cookie /\ moves[i].cookie # 0)
      ]_operation

\* What holds: the same with cookie 0 on the IN_MOVE_SELF events.
RenameTripleSelfUncounted ==
    [][(Renamed /\ last'.f = 1) =>
          Let(EventsWith(events', MoveMask), LAMBDA moves :
          /\ cnt'.cookie > cnt.cookie
          /\ \A i, j \in DOMAIN moves : i < j => MoveRank(moves[i]) <= MoveRank(moves[j])
          /\ \A wd \in WatchesFor(OldParent(Start, last'.a), "IN_MOVED_FROM") :
                Len(EventsOf(events', wd, "IN_MOVED_FROM")) = 1
          /\ \A wd \in WatchesFor(NewParent(Start, last'.b), "IN_MOVED_TO") :
                Len(EventsOf(events', wd, "IN_MOVED_TO")) = 1
          /\ \A wd \in WatchesFor(_lfind(Start, 1, _resolve(Start, 1, last'.a)).val.node,
                                  "IN_MOVE_SELF") :
                Len(EventsOf(events', wd, "IN_MOVE_SELF")) = 1
          /\ \A i \in DOMAIN moves :
                moves[i].cookie = IF MoveRank(moves[i]) = 3 THEN 0 ELSE cnt'.cookie)
      ]_operation

----------------------------------------------------------------------------
(* Writing through a descriptor opened with O_SYNC *)

\* WorldTree with one inotify descriptor that watches /a (wd 1) and /a/f (wd 2).
WorldSync ==
    Let(_inotify_init(WorldTree, 1), LAMBDA i :
    [_inotify_add_watch(_inotify_add_watch(i.w, 1, i.val, PathA, IN_ALL_EVENTS).w,
                        1, i.val, PathF, IN_ALL_EVENTS).w
        EXCEPT !.events = <<>>])

InitSync == InitFrom(WorldSync)

NextSync ==
    \/ \E flags \in {O_RDWR, {"O_RDWR", "O_SYNC"}} : OpenSync(1, PathF, flags, Mode666)
    \/ \E fd \in Fds, data \in {<<9>>, <<8, 8>>}, position \in {-1} :
          WriteSync(1, fd, data, position)
    \/ \E fd \in Fds \ {WorldSync.cnt.fd} : CloseSync(1, fd)

SpecSync == InitSync /\ [][NextSync]_vars

\* The step is a writeSync of at least one byte that has returned, through a
\* descriptor opened with O_SYNC.
SyncWrite ==
    /\ last'.op = "writeSync"
    /\ last'.err = "OK"
    /\ Len(last'.data) > 0
    /\ "O_SYNC" \in fsys[1].openFiles[last'.fd].flags

\* The step has made data the bytes of the inode from the place of the write on.
Written ==
    Let(fsys[1].openFiles[last'.fd], LAMBDA entry :
    Let(IF last'.pos = -1 THEN entry.offset ELSE last'.pos, LAMBDA at :
    SubSeq(bytesOf(World', entry.node), at + 1, at + Len(last'.data)) = last'.data))

\* The step has handed IN_MODIFY to the watch of the parent, then to that of the
\* node, and nothing else.
Modified ==
    /\ Len(events') = 2
    /\ events'[1].wd = 1 /\ events'[1].mask = {"IN_MODIFY"}
    /\ events'[2].wd = 2 /\ events'[2].mask = {"IN_MODIFY"}

\* The step has set the time stamps named by fields, on the inode h, to the
\* current time.
Stamped(h, fields) == {<<h, x, "time">> : x \in fields} \subseteq stamps'

\* C24 (O_SYNC publishes every write): each writeSync of at least one byte on a
\* descriptor opened with O_SYNC, the first and every later one, whether or not it
\* grows the file, has made the written bytes the content of the inode when it
\* returns, has set mtime and ctime of the inode to the current time and has
\* emitted IN_MODIFY on the parent and on the node.
C24_SyncPublishes ==
    [][SyncWrite =>
          /\ Written
          /\ Stamped(fsys[1].openFiles[last'.fd].node, {"mtimeMs", "ctimeMs"})
          /\ Modified]_operation

\* What holds: the bytes are those of the inode after every such write, and the
\* time stamps are set and IN_MODIFY is emitted by the writes that give the
\* descriptor a new Buffer, and by no other.
SyncPublishesNewBuffer ==
    [][SyncWrite =>
          /\ Written
          /\ IF fsys'[1].openFiles[last'.fd].buffer # fsys[1].openFiles[last'.fd].buffer
             THEN /\ Modified
                  /\ Stamped(fsys[1].openFiles[last'.fd].node, {"mtimeMs", "ctimeMs"})
             ELSE events' = <<>> /\ stamps' = {}]_operation

----------------------------------------------------------------------------
(* Truncating a regular file *)

MaxSize == 3        \* the lengths a file is truncated to

InitTruncate == InitFrom(WorldSync)

NextTruncate ==
    \/ \E len \in 0..MaxSize : TruncateSync(1, PathF, len)
    \/ OpenSync(1, PathF, O_RDWR, Mode666)
    \/ \E fd \in Fds, len \in 0..MaxSize : FtruncateSync(1, fd, len)
    \/ \E fd \in Fds \ {WorldSync.cnt.fd} : CloseSync(1, fd)

SpecTruncate == InitTruncate /\ [][NextTruncate]_vars

\* The step is a truncateSync or an ftruncateSync that has returned.
Truncated == last'.op \in {"truncateSync", "ftruncateSync"} /\ last'.err = "OK"

\* The inode that the step truncates
TruncatedNode ==
    IF last'.op = "truncateSync"
    THEN _find(Start, 1, _resolve(Start, 1, last'.a)).val.node
    ELSE fsys[1].openFiles[last'.fd].node

\* The inode has exactly n bytes: those it had, as far as they go, then zeros.
Resized(h, n) ==
    Let(bytesOf(World, h), LAMBDA old :
    bytesOf(World', h) = [i \in 1..n |-> IF i <= Len(old) THEN old[i] ELSE 0])

\* C25 (truncate): truncateSync(path, n) and ftruncateSync(fd, n) with n >= 0 on a
\* regular file leave the inode with exactly n bytes, the first min(old size, n)
\* unchanged and those beyond the old size zero, set mtime and ctime to the current
\* time, and emit IN_MODIFY on the parent and then on the node.
C25_Truncate ==
    [][Truncated =>
          /\ Resized(TruncatedNode, last'.pos)
          /\ Stamped(TruncatedNode, {"mtimeMs", "ctimeMs"})
          /\ Modified]_operation

\* What holds: the bytes and the events are as stated, and mtime is the one time
\* stamp that is set.
TruncateStampsMtime ==
    [][Truncated =>
          /\ Resized(TruncatedNode, last'.pos)
          /\ stamps' = {<<TruncatedNode, "mtimeMs", "time">>}
          /\ Modified]_operation

----------------------------------------------------------------------------
(* One-shot watches and inotify_rm_watch *)

\* WorldTree with one inotify descriptor that has no watch yet.
WorldInotify == [_inotify_init(WorldTree, 1).w EXCEPT !.events = <<>>]

OneShotMasks ==
    {IN_ALL_EVENTS, IN_ALL_EVENTS \cup {"IN_ONESHOT"}, {"IN_DELETE_SELF", "IN_ONESHOT"}}

Wds == 1..MaxWds

InitOneShot == InitFrom(WorldInotify)

NextOneShot ==
    \/ \E path \in {PathA, PathF}, mask \in OneShotMasks :
          InotifyAddWatch(1, WorldInotify.cnt.fd, path, mask)
    \/ \E fd \in Fds, wd \in Wds : InotifyRmWatch(1, fd, wd)
    \/ TruncateSync(1, PathF, 0)
    \/ UnlinkSync(1, PathF)
    \/ OpenSync(1, PathF, {"O_RDWR", "O_CREAT"}, Mode666)
    \/ \E fd \in Fds : CloseSync(1, fd)

SpecOneShot == InitOneShot /\ [][NextOneShot]_vars

\* The events of the log that were handed to watch descriptor wd.
EventsTo(log, wd) == SelectSeq(log, LAMBDA e : e.wd = wd)

\* In the world w the watch wd is neither among the watches of its inode nor in
\* one of the two maps of an inotify descriptor.
AbsentIn(w, wd) ==
    /\ \A i \in DOMAIN w.inode[w.wdesc[wd].node].watches :
          w.inode[w.wdesc[wd].node].watches[i].wd # wd
    /\ Unlisted(w.fsys[1].openFiles, {wd})

\* C26 (one-shot watches): a watch whose stored mask has IN_ONESHOT is handed at
\* most one event by an operation; when it has been handed an event it is absent
\* from its inode and from its inotify descriptor; and once it is absent it stays
\* absent and no operation hands it another event, IN_IGNORED included.
C26_OneShot ==
    [][\A wd \in 1..cnt'.wd :
          "IN_ONESHOT" \in wdesc'[wd].mask =>
             /\ Len(EventsTo(events', wd)) <= 1
             /\ EventsTo(events', wd) # <<>> => AbsentIn(World', wd)
             /\ (wd <= cnt.wd /\ AbsentIn(World, wd)) =>
                   AbsentIn(World', wd) /\ EventsTo(events', wd) = <<>>]_operation

\* A one-shot watch of the file is gone from the inode while another watch of the
\* same inode was handed the events of the removal of the file.
C26_Witness ==
    /\ last.op = "unlinkSync"
    /\ last.err = "OK"
    /\ \E wd \in 1..cnt.wd, e \in 1..Len(events) :
          /\ "IN_ONESHOT" \in wdesc[wd].mask
          /\ AbsentIn(World, wd)
          /\ EventsTo(events, wd) = <<>>
          /\ events[e].wd # wd
          /\ wdesc[events[e].wd].node = wdesc[wd].node
          /\ wdesc[events[e].wd].watcher = wdesc[wd].watcher

\* The step is an inotify_rm_watch(fd, wd) on a watch that the descriptor holds.
RemovesWatch ==
    /\ last'.op = "inotify_rm_watch"
    /\ last'.fd \in DOMAIN fsys[1].openFiles
    /\ last'.pos \in fsys[1].openFiles[last'.fd].watches

\* C27 (inotify_rm_watch): on an existing watch it removes the watch from the
\* watched inode and from both maps of the inotify descriptor and delivers exactly
\* one event, IN_IGNORED with that wd and cookie 0; a second inotify_rm_watch(fd, wd)
\* fails with EBADF and delivers nothing.
C27_RmWatch ==
    [][/\ RemovesWatch =>
             /\ last'.err = "OK"
             /\ AbsentIn(World', last'.pos)
             /\ Len(events') = 1
             /\ events'[1].wd = last'.pos
             /\ events'[1].mask = {"IN_IGNORED"}
             /\ events'[1].cookie = 0
       /\ (/\ last.op = "inotify_rm_watch" /\ last.err = "OK"
           /\ last'.op = "inotify_rm_watch" /\ last'.fd = last.fd /\ last'.pos = last.pos) =>
             /\ last'.err = "EBADF"
             /\ events' = <<>>
             /\ UNCHANGED <<inode, fsys, wdesc, cnt>>]_<<operation, stamps>>

\* An inotify_rm_watch that followed a successful one with the same arguments.
C27_Witness ==
    /\ last.op = "inotify_rm_watch"
    /\ last.err = "EBADF"
    /\ last.fd \in DOMAIN fsys[1].openFiles
    /\ isInotifyDescription(fsys[1].openFiles[last.fd])
    /\ last.pos <= cnt.wd
    /\ wdesc[last.pos].watcher = last.fd
    /\ AbsentIn(World, last.pos)
    /\ events = <<>>

----------------------------------------------------------------------------
(* The order of the notifications of one mutation *)

\* WorldTree with one inotify descriptor that watches / (wd 1) and /a (wd 2).
WorldRootWatch ==
    Let(_inotify_init(WorldTree, 1), LAMBDA i :
    [_inotify_add_watch(_inotify_add_watch(i.w, 1, i.val, RootPath, IN_ALL_EVENTS).w,
                        1, i.val, PathA, IN_ALL_EVENTS).w
        EXCEPT !.events = <<>>])

InitNotify == InitFrom(WorldSync) \/ InitFrom(WorldRootWatch)

NextNotify ==
    \/ ChmodSync(1, PathF, Mode666)
    \/ ChownSync(1, PathF, 0, 1)
    \/ UtimesSync(1, PathF)
    \/ TruncateSync(1, PathF, 0)
    \/ OpenSync(1, PathF, O_RDWR, Mode666)
    \/ \E fd \in Fds : ReadSync(1, fd, 1, 0)
    \/ \E fd \in Fds : WriteSync(1, fd, <<9>>, 0)
    \/ \E fd \in Fds : FsyncSync(1, fd)
    \/ \E fd \in Fds \ {WorldSync.cnt.fd} : CloseSync(1, fd)
    \/ LinkSync(1, PathF, PathG)
    \/ \E path \in {PathF, PathG} : UnlinkSync(1, path)
    \/ RmdirSync(1, PathA)

SpecNotify == InitNotify /\ [][NextNotify]_vars

\* The step is one of the mutations that notify a parent directory and a node, and
\* it has returned.
Notifies ==
    /\ last'.op \in {"chmodSync", "chownSync", "utimesSync", "fsyncSync", "truncateSync",
                     "openSync", "readSync", "closeSync", "linkSync", "unlinkSync",
                     "rmdirSync"}
    /\ last'.err = "OK"

\* The parent directory and the node that the step notifies.
Notified ==
    CASE last'.op \in {"fsyncSync", "readSync", "closeSync"} ->
            [parent |-> fsys[1].openFiles[last'.fd].parent,
             node |-> fsys[1].openFiles[last'.fd].node]
      [] last'.op = "openSync" ->
            [parent |-> fsys'[1].openFiles[cnt'.fd].parent,
             node |-> fsys'[1].openFiles[cnt'.fd].node]
      [] last'.op = "linkSync" ->
            [parent |-> _find(Start, 1, dirname(_resolve(Start, 1, last'.b))).val.node,
             node |-> _find(Start, 1, _resolve(Start, 1, last'.a)).val.node]
      [] last'.op = "unlinkSync" ->
            Let(_lfind(Start, 1, _resolve(Start, 1, last'.a)).val, LAMBDA e :
            [parent |-> e.parent, node |-> e.node])
      [] OTHER ->
            Let(_find(Start, 1, _resolve(Start, 1, last'.a)).val, LAMBDA e :
            [parent |-> e.parent, node |-> e.node])

\* In the log of the step, which notifies the entry n, event j went to a watch of
\* the parent and event i to a watch of the node.
ParentAndNode(n, j, i) ==
    /\ n.parent # n.node
    /\ wdesc'[events'[j].wd].node = n.parent
    /\ wdesc'[events'[i].wd].node = n.node

\* The events of the log of the step, which notifies the entry n, are those of
\* this mutation: each went to a watch of the parent or of the node.
DeliveredInCall(n) ==
    \A i \in DOMAIN events' : wdesc'[events'[i].wd].node \in {n.parent, n.node}

\* C28 (notification order) as stated: events are delivered in the order the
\* mutations complete, each mutation handing over its own events before it
\* returns, and within every mutation that notifies a parent directory
\* and a node (chmod, chown, utimes, fsync, truncate, open, read, close, link,
\* unlink, rmdir) every callback for the parent is invoked before any callback for
\* the node.
C28_ParentFirst ==
    [][Notifies =>
          \A n \in {Notified} :
             /\ DeliveredInCall(n)
             /\ \A j, i \in DOMAIN events' : ParentAndNode(n, j, i) => j < i]_operation

\* C28 amended (notification order): the same within every notification of a
\* mutation; closeSync on a descriptor with unpublished bytes makes two, IN_MODIFY
\* on the parent and the node and then IN_CLOSE_WRITE on the parent and the node,
\* so that there the IN_MODIFY callback of the node comes before the
\* IN_CLOSE_WRITE callback of the parent.
C28_ParentFirstInEach ==
    [][Notifies =>
          \A n \in {Notified} :
             /\ DeliveredInCall(n)
             /\ \A j, i \in DOMAIN events' :
                   ParentAndNode(n, j, i) =>
                      \/ j < i
                      \/ /\ last'.op = "closeSync"
                         /\ events'[i].mask = {"IN_MODIFY"}
                         /\ events'[j].mask = {"IN_CLOSE_WRITE"}]_operation

\* A closeSync published bytes with watches on the parent and on the node: four
\* events, the parent before the node in each pair.
C28_Witness ==
    /\ last.op = "closeSync"
    /\ last.err = "OK"
    /\ Len(events) = 4
    /\ events[1].wd = 1 /\ events[1].mask = {"IN_MODIFY"}
    /\ events[2].wd = 2 /\ events[2].mask = {"IN_MODIFY"}
    /\ events[3].wd = 1 /\ events[3].mask = {"IN_CLOSE_WRITE"}
    /\ events[4].wd = 2 /\ events[4].mask = {"IN_CLOSE_WRITE"}

----------------------------------------------------------------------------
(* Renaming onto an existing name *)

InitRename ==
    \E p1 \in {PathA, PathB}, p2 \in {PathB, PathF} :
        InitFrom(Watched(p1, IN_ALL_EVENTS, p2, IN_ALL_EVENTS))

NextRename ==
    \/ \E oldpath \in {PathA, PathB, PathF, PathH},
          newpath \in {PathA, PathB, PathF, PathG, PathH} :
          RenameSync(1, oldpath, newpath)
    \/ LinkSync(1, PathF, PathH)

SpecRename == InitRename /\ [][NextRename]_vars

\* The source, the directory of the destination and the inode that has the new
\* name before the step (0 when there is none, or when a path does not resolve).
Renaming ==
    Let(_lfind(Start, 1, _resolve(Start, 1, last'.a)), LAMBDA e :
    Let(_find(Start, 1, dirname(_resolve(Start, 1, last'.b))), LAMBDA p :
    IF e.err = "OK" /\ e.val.found /\ p.err = "OK" /\ p.val.found
       /\ isDirectoryInode(World, p.val.node)
       /\ SortedMapHas(inode[p.val.node].links, basename(_resolve(Start, 1, last'.b)))
    THEN [oldNode |-> e.val.node,
          existingNode |-> SortedMapGet(inode[p.val.node].links,
                                        basename(_resolve(Start, 1, last'.b)))]
    ELSE [oldNode |-> 0, existingNode |-> 0]))

\* The error that the kinds of the two inodes call for, "OK" when they agree and
\* a directory that is displaced is empty.
KindError(r) ==
    IF isDirectoryInode(World, r.oldNode)
    THEN IF ~isDirectoryInode(World, r.existingNode) THEN "ENOTDIR"
         ELSE IF SortedMapSize(inode[r.existingNode].links) > 0 THEN "ENOTEMPTY"
         ELSE "OK"
    ELSE IF isDirectoryInode(World, r.existingNode) THEN "EISDIR" ELSE "OK"

\* C29 (rename onto an existing name): renameSync fails with ENOTDIR for a
\* directory onto a non-directory, with EISDIR for a non-directory onto a
\* directory and with ENOTEMPTY onto a non-empty directory; a failure leaves the
\* directory entries, the link counts and the watches as they were and emits no
\* event; a success decrements the link count of the displaced inode by one and
\* removes its watches if the count reached 0.
C29_RenameOnto ==
    [][last'.op = "renameSync" =>
          \A r \in {Renaming} :
             r.existingNode # 0 =>
                IF KindError(r) # "OK"
                THEN /\ last'.err = KindError(r)
                     /\ UNCHANGED <<inode, fsys, wdesc, cnt>>
                     /\ events' = <<>>
                ELSE last'.err = "OK" =>
                        /\ inode'[r.existingNode].nlink = inode[r.existingNode].nlink - 1
                        /\ inode'[r.existingNode].nlink = 0 =>
                              /\ inode'[r.existingNode].watches = <<>>
                              /\ Unlisted(fsys'[1].openFiles, Targeting(r.existingNode))
                        /\ inode'[r.existingNode].nlink > 0 =>
                              inode'[r.existingNode].watches = inode[r.existingNode].watches
      ]_operation

\* A rename displaced a watched inode other than the one renamed: its link count
\* is 0 and its watch was handed IN_IGNORED.
C29_Witness ==
    /\ last.op = "renameSync"
    /\ last.err = "OK"
    /\ \E i \in DOMAIN events :
          /\ events[i].mask = {"IN_IGNORED"}
          /\ inode[wdesc[events[i].wd].node].nlink = 0
          /\ inode[wdesc[events[i].wd].node].watches = <<>>

----------------------------------------------------------------------------
(* The loop of the resolver, one iteration at a time *)

\* After symlinkSync("/a/h", "/a/g"); symlinkSync("/a/g", "/a/h"): /a/g and /a/h
\* name each other.
WorldMutual ==
    [symlinkSync(symlinkSync(WorldTree, 1, formatPath(PathH), PathG).w,
                 1, formatPath(PathG), PathH).w
        EXCEPT !.events = <<>>]

\* File systems without symbolic links, with a symlink to its own directory and
\* one to itself, and with two symlinks that name each other.
ResolveWorlds == {WorldTree, WorldWalk, WorldMutual}

ResolvePaths ==
    {RootPath, PathB, PathF, PathG, PathH, PathFH, Chain(1, <<"g">>), Chain(2, <<"f">>)}

\* A call of _walk(path, noFollow) that has not made its first iteration.
InitResolve ==
    \E w \in ResolveWorlds, path \in ResolvePaths, noFollow \in BOOLEAN :
        /\ inode = w.inode
        /\ buf = w.buf
        /\ fsys = w.fsys
        /\ wdesc = w.wdesc
        /\ cnt = w.cnt
        /\ events = w.events
        /\ calls = w.calls
        /\ poll = w.poll
        /\ stamps = {}
        /\ watchers = w.watchers
        /\ ticks = <<>>
        /\ invoked = <<>>
        /\ last = [NoOp EXCEPT !.op = "_walk", !.f = 1, !.a = path,
                               !.flags = IF noFollow THEN {"noFollow"} ELSE {},
                               !.val = walkStart(w, 1, path)]

\* One iteration of the loop of _walk; pos counts the iterations.
WalkStep ==
    /\ last.op = "_walk"
    /\ ~last.val.done
    /\ last.pos < WalkSteps
    /\ last' = [last EXCEPT !.val = walkStep(last.val, 1, "noFollow" \in last.flags),
                            !.pos = @ + 1]
    /\ UNCHANGED fileSystems

\* _walk returns or throws: the file system is as the loop has left it.
WalkReturn ==
    /\ last.op = "_walk"
    /\ last.val.done
    /\ Step(last.val.out, [last EXCEPT !.op = "walked"])

NextResolve == WalkStep \/ WalkReturn

SpecResolve == InitResolve /\ [][NextResolve]_vars

\* ENABLED <<NextResolve>>_vars: the call has not returned, and its loop has ended
\* or may make one more iteration.
Resolving == last.op = "_walk" /\ (last.val.done \/ last.pos < WalkSteps)

\* A step of NextResolve: each counts an iteration or ends the call.
Resolves == last'.pos # last.pos \/ last'.op # last.op

\* The call runs to its end without interruption: the loop is not kept from its
\* next iteration, nor the call from returning. This is WF_vars(NextResolve), with
\* its two halves written as the state predicate and the step they come to here.
FairResolve ==
    /\ SpecResolve
    /\ \/ []<>(~Resolving)
       \/ []<><<Resolves>>_<<last.op, last.pos>>

\* _walk has ended with an entry, with undefined or with an error.
Resolved ==
    /\ last.op = "walked"
    /\ last.err = "OK" => last.val.found \in BOOLEAN

\* C30 (resolver termination): for every file system, those with cyclic and
\* mutually referring symlinks and with symlinks to their own ancestors included,
\* and every path, with or without noFollow, path resolution ends after finitely
\* many iterations with an entry, a not-found result or an error.
C30_Terminates == <>Resolved

\* A resolution of /a/g, which names /a/h, which names /a/g, has ended with ELOOP.
C30_Witness ==
    /\ last.op = "walked"
    /\ last.a = PathG
    /\ last.flags = {}
    /\ last.err = "ELOOP"
    /\ \E h \in DOMAIN inode : inode[h].symlink = formatPath(PathH)

----------------------------------------------------------------------------
(* Closing and publishing a descriptor that has not written (checked under SpecIO) *)

\* The step is a closeSync or an fsyncSync that has returned, on a descriptor of a
\* regular file opened for reading only and without O_TRUNC: no writeSync on it
\* has succeeded, since _file refuses W_OK on it.
ReaderPublishes ==
    /\ last'.op \in {"closeSync", "fsyncSync"}
    /\ last'.err = "OK"
    /\ last'.fd \in DOMAIN fsys[1].openFiles
    /\ isOpenFileDescription(fsys[1].openFiles[last'.fd])
    /\ ~isWritable(fsys[1].openFiles[last'.fd])
    /\ "O_TRUNC" \notin fsys[1].openFiles[last'.fd].flags

\* The step leaves the bytes and the size of inode h as they are, sets neither its
\* mtime nor its ctime and emits no IN_MODIFY.
ContentKept(h) ==
    /\ bytesOf(World', h) = bytesOf(World, h)
    /\ _getSize(World', 1, h).val = _getSize(World, 1, h).val
    /\ \A x \in {"mtimeMs", "ctimeMs"} : <<h, x, "time">> \notin stamps'
    /\ \A i \in 1..Len(events') : "IN_MODIFY" \notin events'[i].mask

\* C31 (closing a descriptor that never wrote leaves content alone): for a
\* descriptor on which no writeSync was performed and that was opened without
\* O_TRUNC, closeSync and fsyncSync leave the inode's bytes, size, mtime and ctime
\* unchanged and emit no IN_MODIFY, in every interleaving with reads on that
\* descriptor and with writes, publishes and closes on other descriptors of the
\* same inode.  Stated for the descriptors opened for reading only.
C31_ReaderKeepsContent ==
    [][ReaderPublishes => ContentKept(fsys[1].openFiles[last'.fd].node)]_<<operation, stamps>>

\* What holds: the content is kept by the descriptors that have not read, and by
\* those whose read view is still the Buffer of the inode.
ReaderKeepsOwnView ==
    [][ReaderPublishes /\ fsys[1].openFiles[last'.fd].buffer
                             \in {0, inode[fsys[1].openFiles[last'.fd].node].buffer}
          => ContentKept(fsys[1].openFiles[last'.fd].node)]_<<operation, stamps>>

----------------------------------------------------------------------------
(* Reading after another descriptor has published (checked under SpecIO) *)

\* The step is an fsyncSync, fdatasyncSync or closeSync that has given the inode
\* of its descriptor a new Buffer.
Publishes ==
    /\ last'.op \in {"fsyncSync", "fdatasyncSync", "closeSync"}
    /\ last'.err = "OK"
    /\ last'.fd \in DOMAIN fsys[1].openFiles
    /\ isOpenFileDescription(fsys[1].openFiles[last'.fd])
    /\ inode'[fsys[1].openFiles[last'.fd].node].buffer
          # inode[fsys[1].openFiles[last'.fd].node].buffer

\* The other descriptors on the inode of fd that are open for reading only: what
\* they read is not their own writing.
Readers(fd) == {B \in Others(1, fd) : ~isWritable(fsys[1].openFiles[B])}

\* C32 (published content is visible to descriptors already open): after
\* descriptor A has published new bytes to an inode by fsyncSync or closeSync, a
\* readSync on any other descriptor B of the same inode, a B that had read before
\* the publish included, returns the published bytes.
C32_PublishVisible ==
    [][Publishes =>
          \A B \in Readers(last'.fd) :
              ReadAll(World', 1, B) = bytesOf(World', fsys[1].openFiles[last'.fd].node)]_operation

\* What holds: the descriptors that had not read before the publish return the
\* published bytes.
PublishVisibleToUnread ==
    [][Publishes =>
          \A B \in Readers(last'.fd) :
              fsys[1].openFiles[B].buffer = 0 =>
                 ReadAll(World', 1, B) = bytesOf(World', fsys[1].openFiles[last'.fd].node)]_operation

----------------------------------------------------------------------------
(* The shape of the namespace (checked under SpecRename) *)

\* The inodes that the directory h names, and those that the paths below h name.
Children(w, h) == {w.inode[h].links.values[n] : n \in DOMAIN w.inode[h].links.values}
Descendants(w, h) == closure(w, Children(w, h))

\* The directory inodes that have a name.
NamedDirectories ==
    {h \in 1..Len(inode) : isDirectoryInode(World, h) /\ inode[h].nlink >= 1}

\* C33 (the namespace stays a forest): after any sequence of operations, a
\* renameSync of a directory to a path inside its own subtree included, every
\* directory inode with nlink >= 1 is reachable by a path from some root and no
\* directory is its own ancestor.
C33_Forest ==
    \A h \in NamedDirectories :
        /\ h \in Reachable(World, 1)
        /\ h \notin Descendants(World, h)

\* What holds: the directories stay reachable and none comes below itself as long
\* as no directory is renamed to a path below itself.
RenamesBelowItself ==
    /\ last'.op = "renameSync"
    /\ last'.err = "OK"
    /\ \E k \in 1..Len(last'.b) :
          /\ _lfind(Start, 1, SubSeq(last'.b, 1, k)).val.found
          /\ _lfind(Start, 1, SubSeq(last'.b, 1, k)).val.node
                = _lfind(Start, 1, last'.a).val.node

ForestUnlessBelowItself ==
    [][C33_Forest /\ ~RenamesBelowItself => C33_Forest']_operation

----------------------------------------------------------------------------
(* The tables of an inotify descriptor, and what its watches are handed *)

TableMasks == {IN_ALL_EVENTS, {"IN_DELETE_SELF", "IN_ONESHOT"}}

InitTables == InitFrom(WorldInotify)

NextTables ==
    \/ \E path \in {PathA, PathF}, mask \in TableMasks :
          InotifyAddWatch(1, WorldInotify.cnt.fd, path, mask)
    \/ \E wd \in Wds : InotifyRmWatch(1, WorldInotify.cnt.fd, wd)
    \/ RenameSync(1, PathF, PathG)
    \/ OpenSync(1, PathF, {"O_RDWR", "O_CREAT"}, Mode666)
    \/ UnlinkSync(1, PathF)
    \/ MkdirSync(1, PathH)
    \/ \E fd \in Fds : CloseSync(1, fd)

SpecTables == InitTables /\ [][NextTables]_vars

\* The open inotify descriptors of file system 1.
InotifyFds ==
    {d \in DOMAIN fsys[1].openFiles : isInotifyDescription(fsys[1].openFiles[d])}

\* The watch descriptions in the (path -> watch) map of descriptor d.
InPaths(d) ==
    {fsys[1].openFiles[d].paths[x] : x \in DOMAIN fsys[1].openFiles[d].paths}

\* The watch descriptions that the inodes hold under the key d.
HeldUnder(d) ==
    {wd \in 1..Len(wdesc) : watchesGet(inode[wdesc[wd].node].watches, d) = wd}

\* C34 (watch table consistency): in every reachable state and for every open
\* inotify descriptor d, the watch descriptions in d's (wd -> watch) map are
\* exactly those in d's (path -> watch) map, and a watch description is in d's
\* maps iff the watched inode's watch map holds it under key d.fd; after any
\* sequence of add_watch, rm_watch, rename, create, unlink and close, watching a
\* path again after the inode under it was renamed away and replaced included.
C34_WatchTables ==
    \A d \in InotifyFds :
        /\ fsys[1].openFiles[d].watches = InPaths(d)
        /\ fsys[1].openFiles[d].watches = HeldUnder(d)

\* What holds: the (wd -> watch) map of d and the watch maps of the inodes agree.
WatchesHeld == \A d \in InotifyFds : fsys[1].openFiles[d].watches = HeldUnder(d)

----------------------------------------------------------------------------
(* The events a watch is handed (checked under SpecTables) *)

\* The event was asked for: it is IN_IGNORED, or one of its event-type bits is in
\* the stored mask of its watch.
AskedFor(e) ==
    \/ "IN_IGNORED" \in e.mask
    \/ e.mask \cap IN_ALL_EVENTS \cap wdesc'[e.wd].mask # {}

\* C35 (only subscribed events are delivered): every event passed to a watcher's
\* callback is either IN_IGNORED or carries at least one event-type bit of
\* IN_ALL_EVENTS that is set in the watch's stored mask; a watch never receives an
\* event consisting only of flag bits (such as IN_ISDIR) for an event type it did
\* not subscribe to.
C35_OnlySubscribed ==
    [][\A i \in 1..Len(events') : AskedFor(events'[i])]_operation

\* C35, as it holds: every event passed to a watcher's callback has a mask that
\* is not empty, and every event-type bit of IN_ALL_EVENTS it carries is set in
\* the watch's stored mask; the flag bits of the notification (IN_ISDIR,
\* IN_IGNORED) are passed on whatever the watch subscribed to, so that an event
\* may consist of IN_ISDIR alone.
C35_SubscribedTypes ==
    [][\A i \in 1..Len(events') :
          /\ events'[i].mask # {}
          /\ events'[i].mask \cap IN_ALL_EVENTS \subseteq wdesc'[events'[i].wd].mask]_operation

\* mkdirSync("/a/h") has handed IN_ISDIR alone to a watch on /a that did not ask
\* for IN_CREATE.
C35_Witness ==
    /\ last.op = "mkdirSync"
    /\ last.err = "OK"
    /\ \E i \in 1..Len(events) :
          /\ events[i].mask = {"IN_ISDIR"}
          /\ "IN_CREATE" \notin wdesc[events[i].wd].mask

----------------------------------------------------------------------------
(* The end of a watch descriptor (checked under SpecTables) *)

\* Some inode holds the watch description wd in its watch map.
Attached(w, wd) ==
    \E h \in 1..Len(w.inode) :
        \E i \in 1..Len(w.inode[h].watches) : w.inode[h].watches[i].wd = wd

\* No event of the log for wd comes after an IN_IGNORED for wd.
IgnoredLast(log, wd) ==
    \A i \in 1..Len(log) :
        log[i].wd = wd /\ "IN_IGNORED" \in log[i].mask =>
            \A j \in (i + 1)..Len(log) : log[j].wd # wd

\* The step is an _inotify_add_watch that has returned a watch descriptor.
Issues == last'.op = "inotify_add_watch" /\ last'.err = "OK"

\* C36 (IN_IGNORED is final): after an IN_IGNORED event has been delivered for a
\* watch descriptor wd, no further event with that wd is ever delivered, and wd
\* is never issued again by inotify_add_watch.  In each step: no event for wd
\* follows its IN_IGNORED, which leaves wd in the watch map of no inode; a wd that
\* was issued and is in no watch map stays so, is handed no event, and is not what
\* _inotify_add_watch returns, which is a wd some inode holds or a new one.
C36_IgnoredFinal ==
    [][/\ \A wd \in 1..cnt'.wd :
             /\ IgnoredLast(events', wd)
             /\ Ignored(events', wd) => ~Attached(World', wd)
             /\ wd <= cnt.wd /\ ~Attached(World, wd) =>
                   /\ ~Attached(World', wd)
                   /\ \A i \in 1..Len(events') : events'[i].wd # wd
       /\ Issues => \/ Attached(World, last'.val)
                    \/ last'.val > cnt.wd]_operation

\* The descriptor has issued a second wd, after its first watch, not a one-shot
\* one, was removed with IN_IGNORED: by _inotify_rm_watch, or with the last name
\* of its inode.
C36_Witness ==
    /\ last.op = "inotify_add_watch"
    /\ last.err = "OK"
    /\ last.fd \in InotifyFds
    /\ cnt.wd = 2
    /\ Attached(World, 2)
    /\ ~Attached(World, 1)
    /\ "IN_ONESHOT" \notin wdesc[1].mask

----------------------------------------------------------------------------
(* FSWatcher: watch and close.  The descriptor of an FSWatcher is private to it:
   the program closes the descriptors it has opened itself. *)

InitFSWatcher == InitFrom(WorldTree)

NextFSWatcher ==
    \/ \E path \in {PathA, PathF} : Watch(1, path)
    \/ \E k \in 1..MaxWds : FSWatcherClose(k)
    \/ UnlinkSync(1, PathF)
    \/ OpenSync(1, PathF, {"O_RDWR", "O_CREAT"}, Mode666)
    \/ \E fd \in Fds \ {watchers[k].fd : k \in 1..Len(watchers)} : CloseSync(1, fd)

SpecFSWatcher == InitFSWatcher /\ [][NextFSWatcher]_vars

\* The step is close() on an FSWatcher that was started.
Closes ==
    /\ last'.op = "FSWatcher.close"
    /\ last'.pos \in 1..Len(watchers)

\* close() has returned, and the descriptor of the watcher is not in the
\* descriptor table.
Released(k) ==
    /\ last'.err = "OK"
    /\ watchers'[k].fd = -1
    /\ watchers[k].fd \notin DOMAIN fsys'[watchers[k].fs].openFiles

\* C37 (FSWatcher.close() always releases its descriptor): for a started
\* FSWatcher, close() returns without error and removes the watcher's inotify
\* descriptor from the file system's descriptor table in every state, after the
\* watched inode was deleted (its watch already torn down) and when close() is
\* called a second time included.
C37_CloseReleases ==
    [][Closes => Released(last'.pos)]_<<operation, watchers>>

\* What holds: close() releases the descriptor of a watcher whose watch is still
\* in the table of its descriptor, and returns at once on a closed watcher.
CloseReleasesWatching ==
    [][Closes /\ (watchers[last'.pos].fd # -1 =>
                     /\ watchers[last'.pos].fd \in DOMAIN fsys[1].openFiles
                     /\ watchers[last'.pos].wd
                           \in fsys[1].openFiles[watchers[last'.pos].fd].watches)
          => Released(last'.pos)]_<<operation, watchers>>

----------------------------------------------------------------------------
(* Hard links seen through a shadow (checked under SpecLink) *)

\* The step is an operation on the shadow g = fs 2 of the frozen fs 1, in which
\* /a/f and /a/g name one inode.
OnShadowOfLinked ==
    /\ last'.f = 2
    /\ fsys[2].exists
    /\ isReadonly(World, 1)
    /\ Linked(World, 1, PathF, PathG)

\* C38 (shadows preserve hard-link sharing): if two paths p and q name the same
\* inode in a frozen file system fs, then in g = fs.shadow() they also name one
\* inode: after any sequence of writes, truncates and closes through p in g,
\* g.readFileSync(q) equals g.readFileSync(p), and unlinking p in g lowers the
\* nlink reported by g.statSync(q) by one.
C38_ShadowSharesLinks ==
    [][OnShadowOfLinked =>
          /\ Linked(World', 2, PathF, PathG) =>
                ReadFile(World', 2, PathF) = ReadFile(World', 2, PathG)
          /\ last'.op = "unlinkSync" /\ last'.err = "OK" =>
                StatOf(World', 2, PathF).stats.nlink
                   = StatOf(World, 2, PathF).stats.nlink - 1]_operation

\* What holds: the two names keep one ino in the shadow, and what is done through
\* /a/g leaves what is read and reported through /a/f as it was.
ShadowSplitsLinks ==
    [][OnShadowOfLinked /\ last'.a = PathG /\ last'.op \in {"truncateSync", "unlinkSync"} =>
          /\ ReadFile(World', 2, PathF) = ReadFile(World, 2, PathF)
          /\ StatOf(World', 2, PathF) = StatOf(World, 2, PathF)]_operation

----------------------------------------------------------------------------
(* Truncating through a descriptor, then closing it *)

InitFtruncate == InitFrom(WorldTree)

NextFtruncate ==
    \/ \E flags \in {O_RDWR, {"O_RDWR", "O_TRUNC"}} : OpenSync(1, PathF, flags, Mode666)
    \/ \E fd \in Fds : ReadSync(1, fd, 1, 0)
    \/ \E fd \in Fds : WriteSync(1, fd, <<9>>, 0)
    \/ \E fd \in Fds, len \in {1, MaxSize} : FtruncateSync(1, fd, len)
    \/ \E fd \in Fds : CloseSync(1, fd)

SpecFtruncate == InitFtruncate /\ [][NextFtruncate]_vars

\* The step is the closeSync of the descriptor that the operation before it, an
\* ftruncateSync that has returned, has truncated.
ClosesTruncated ==
    /\ last.op = "ftruncateSync"
    /\ last.err = "OK"
    /\ last'.op = "closeSync"
    /\ last'.fd = last.fd
    /\ last'.err = "OK"

\* C39 (a truncate through a descriptor survives its close): for every writable
\* descriptor fd on a regular file (opened with or without O_TRUNC, with or
\* without earlier reads or writes on it), after ftruncateSync(fd, n) followed by
\* closeSync(fd) with no write in between, the file's size is n.
C39_TruncateSurvivesClose ==
    [][ClosesTruncated =>
          _getSize(World', 1, fsys[1].openFiles[last.fd].node).val = last.pos]_operation

\* What holds: the size is n when the descriptor has no Buffer of its own (it was
\* opened without O_TRUNC and has neither read nor written), or has the one of the
\* inode.
TruncateSurvivesUnstaged ==
    [][ClosesTruncated /\ fsys[1].openFiles[last.fd].buffer
                             \in {0, inode[fsys[1].openFiles[last.fd].node].buffer} =>
          _getSize(World', 1, fsys[1].openFiles[last.fd].node).val = last.pos]_operation

----------------------------------------------------------------------------
(* Counting the names of an inode (checked under Spec) *)

\* The entries of the directories, <<directory, name>>, and of the root map,
\* <<0, name>>, that name inode h.
EntriesNaming(h) ==
    {x \in (1..Len(inode)) \X Names :
        /\ x[2] \in DOMAIN inode[x[1]].links.values
        /\ inode[x[1]].links.values[x[2]] = h}
    \cup {<<0, n>> : n \in {y \in DOMAIN fsys[1].links.values : fsys[1].links.values[y] = h}}

\* C40 (exact link accounting): in a file system that is not a shadow, after any
\* sequence of mkdir, rmdir, open-create, link, unlink, rename and symlink, the
\* nlink of every inode equals the number of directory entries (root-map entries
\* included) that name it.
C40_ExactLinks ==
    \A h \in 1..Len(inode) : inode[h].nlink = Cardinality(EntriesNaming(h))

\* The step is a renameSync that has returned, to a name that the renamed inode
\* already had.
RenamesOntoItself ==
    /\ last'.op = "renameSync"
    /\ last'.err = "OK"
    /\ _lfind(Start, 1, last'.b).val.found
    /\ _lfind(Start, 1, last'.b).val.node = _lfind(Start, 1, last'.a).val.node

\* What holds: the count is exact after every operation but a rename of an inode
\* to one of its own names.
ExactUnlessOntoItself ==
    [][C40_ExactLinks /\ ~RenamesOntoItself => C40_ExactLinks']_operation

====
